---- MODULE Spec2Model ----
(***************************************************************************)
(* A model of pgdrift: the JSON document analyzer (pgdrift-core            *)
(* analyzer.rs / stats.rs / types.rs), the sampling-strategy selector and  *)
(* sampler (pgdrift-db sampler.rs), the drift classifier (drift.rs) and    *)
(* the index recommender (index.rs).                                       *)
(*                                                                         *)
(* Strings are sequences of one-character strings, so that prefix tests,   *)
(* splitting and the byte-wise ordering of paths are computed as the code  *)
(* computes them.  An f64 obtained by dividing two counters is the exact   *)
(* rational [num, den]; comparisons cross-multiply.                        *)
(***************************************************************************)
EXTENDS Integers, Sequences, FiniteSets, TLC

VARIABLES
    \* JsonAnalyzer
    stats,          \* JsonAnalyzer.stats: path -> FieldStats
    total_samples,  \* JsonAnalyzer.total_samples
    finalized,      \* TRUE once finalize() has consumed the analyzer
    analyzed,       \* the documents passed to analyze() by Analyze, in call order
    \* Sampler and the database it talks to
    pc,             \* "start", "created" (a Sampler exists), "failed", "sampled"
    call,           \* arguments of Sampler::new / auto_select
    db,             \* what the database answers to the two selection queries
    ran,            \* the selection queries auto_select issued
    count_sql,      \* the text of the row-count query among them, None without one
    select_result,  \* what auto_select returned
    strategy,       \* Sampler.strategy
    production_mode,\* Sampler.production_mode
    warned,         \* sample() printed the production-mode warning
    executed,       \* the query sample() sent to the database
    \* detect_drift
    corpus,         \* key -> profile: the corpus the statistics were computed from
    drift_config,   \* the DriftConfig passed to detect_drift
    drift_done,     \* detect_drift has returned
    issues,         \* the Vec<DriftIssue> it returned
    \* recommend_index
    index_config,   \* the IndexConfig passed to recommend_index
    index_call,     \* its other arguments, and the iteration order of each types map
    index_done,     \* recommend_index has returned
    recommendations,\* the Vec<IndexRecommendation> it returned
    \* the analyze, index and scan-all commands
    cmd,            \* the command line, and the database the command runs against
    cmd_pos,        \* scan-all: the index of the next column, 0 before the loop
    column_results, \* scan-all: the Vec<ColumnScanResult> built so far
    cmd_output,     \* the report the command printed
    cmd_result      \* what run() returned

analyzerVars == <<stats, total_samples, finalized, analyzed>>
samplerVars  == <<pc, call, db, ran, count_sql, select_result, strategy,
                  production_mode, warned, executed>>

driftVars    == <<corpus, drift_config, drift_done, issues>>

indexVars    == <<index_config, index_call, index_done, recommendations>>

commandVars  == <<cmd, cmd_pos, column_results, cmd_output, cmd_result>>

vars == <<analyzerVars, samplerVars, driftVars, indexVars, commandVars>>

None == [kind |-> "None"]

\* A String: the sequence of its characters.
Chars(s) == [i \in 1..Len(s) |-> SubSeq(s, i, i)]

DigitChars == <<"0", "1", "2", "3", "4", "5", "6", "7", "8", "9">>

NewLine == <<"\n">>

Spaces(n) == [i \in 1..n |-> " "]

RECURSIVE Decimal(_)
\* {} of an unsigned integer
Decimal(n) ==
    IF n < 10 THEN <<DigitChars[n + 1]>>
    ELSE Decimal(n \div 10) \o <<DigitChars[(n % 10) + 1]>>

RECURSIVE FractionDigits(_, _)
\* The decimal digits of n / d, for 0 <= n < d and a terminating expansion.
FractionDigits(n, d) ==
    IF n = 0 THEN <<>>
    ELSE <<DigitChars[((n * 10) \div d) + 1]>> \o FractionDigits((n * 10) % d, d)

\* {} of a non-negative f32 whose shortest decimal form terminates: the
\* integer part, and the fraction digits when there are any.
DisplayFloat(r) ==
    Decimal(r.num \div r.den)
    \o (IF r.num % r.den = 0 THEN <<>>
        ELSE <<".">> \o FractionDigits(r.num % r.den, r.den))

(***************************************************************************)
(* Bounds of the model.                                                    *)
(***************************************************************************)
MaxDocs == 3        \* analyze() calls per analysis run
ManyItems == 6      \* elements of the longest array in a document

(***************************************************************************)
(* Rationals standing for the f64 values of the program.                   *)
(***************************************************************************)
Rat(n, d) == [num |-> n, den |-> d]
RLe(a, b) == a.num * b.den <= b.num * a.den
RLt(a, b) == a.num * b.den <  b.num * a.den
REq(a, b) == a.num * b.den =  b.num * a.den
RZero == Rat(0, 1)
ROne  == Rat(1, 1)

(***************************************************************************)
(* serde_json::Value and JsonType (types.rs).                              *)
(***************************************************************************)
\* JsonType: "Null", "Boolean", "Number", "String", "Array", "Object"
JNull      == [t |-> "Null"]
JBool(b)   == [t |-> "Boolean", b |-> b]
JNum(n)    == [t |-> "Number", n |-> n]
JStr(s)    == [t |-> "String", s |-> s]
JArr(xs)   == [t |-> "Array", items |-> xs]
\* entries: a sequence of <<key, value>> with distinct keys, in the map's order
JObj(es)   == [t |-> "Object", entries |-> es]

from_value(value) == value.t

(***************************************************************************)
(* FieldStats (stats.rs).                                                  *)
(***************************************************************************)
MaxExamples == 10

RECURSIVE SumTypes(_)
SumTypes(types) ==
    IF DOMAIN types = {} THEN 0
    ELSE LET k == CHOOSE k \in DOMAIN types : TRUE
         IN  types[k] + SumTypes([j \in DOMAIN types \ {k} |-> types[j]])

FieldStatsNew(path, depth) ==
    [ path          |-> path,
      occurrences   |-> 0,
      total_samples |-> 0,
      density       |-> RZero,
      null_count    |-> 0,
      types         |-> [j \in {} |-> 0],
      examples      |-> <<>>,
      depth         |-> depth ]

\* *self.types.entry(json_type).or_insert(0) += 1
BumpType(types, jt) ==
    (jt :> (IF jt \in DOMAIN types THEN types[jt] ELSE 0) + 1) @@ types

\* A record() that forgets the histogram bucket of a null value.
RecordSkipsNullBucket(fs, value) ==
    [fs EXCEPT
        !.occurrences = @ + 1,
        !.types       = IF value.t = "Null" THEN @ ELSE BumpType(@, from_value(value)),
        !.null_count  = IF value.t = "Null" THEN @ + 1 ELSE @,
        !.examples    = IF Len(@) < MaxExamples THEN Append(@, value) ELSE @]

\* A record() that keeps the latest values: a full list drops its oldest.
RecordKeepsLatest(fs, value) ==
    [fs EXCEPT
        !.occurrences = @ + 1,
        !.types       = BumpType(@, from_value(value)),
        !.null_count  = IF value.t = "Null" THEN @ + 1 ELSE @,
        !.examples    = IF Len(@) < MaxExamples THEN Append(@, value)
                        ELSE Append(Tail(@), value)]

Record(fs, value) ==
    [fs EXCEPT
        !.occurrences = @ + 1,
        !.types       = BumpType(@, from_value(value)),
        !.null_count  = IF value.t = "Null" THEN @ + 1 ELSE @,
        !.examples    = IF Len(@) < MaxExamples THEN Append(@, value) ELSE @]

FieldFinalize(fs, total) ==
    [fs EXCEPT
        !.total_samples = total,
        !.density       = IF total > 0 THEN Rat(fs.occurrences, total) ELSE @]

(***************************************************************************)
(* JsonAnalyzer (analyzer.rs).                                             *)
(***************************************************************************)
Dot      == <<".">>
ArrayTag == <<"[", "]">>

\* A record_field that skips a value the entry already holds as an example.
record_field_distinct(st, path, value, depth) ==
    IF path \in DOMAIN st /\ \E i \in 1..Len(st[path].examples) : st[path].examples[i] = value
    THEN st
    ELSE LET cur == IF path \in DOMAIN st THEN st[path] ELSE FieldStatsNew(path, depth)
         IN  (path :> Record(cur, value)) @@ st

record_field(st, path, value, depth) ==
    LET cur == IF path \in DOMAIN st THEN st[path] ELSE FieldStatsNew(path, depth)
    IN  (path :> Record(cur, value)) @@ st

RECURSIVE walk(_, _, _, _), WalkEntries(_, _, _, _, _), WalkItems(_, _, _, _, _)

\* for (key, val) in map, from entry i on
WalkEntries(st, path, es, i, depth) ==
    IF i > Len(es) THEN st
    ELSE LET key        == es[i][1]
             val        == es[i][2]
             field_path == IF path = <<>> THEN key ELSE path \o Dot \o key
             st1        == record_field(st, field_path, val, depth + 1)
             st2        == walk(st1, field_path, val, depth + 1)
         IN  WalkEntries(st2, path, es, i + 1, depth)

\* for item in arr, from item i on
WalkItems(st, array_path, xs, i, depth) ==
    IF i > Len(xs) THEN st
    ELSE WalkItems(walk(st, array_path, xs[i], depth + 1), array_path, xs, i + 1, depth)

walk(st, path, value, depth) ==
    CASE value.t = "Object" -> WalkEntries(st, path, value.entries, 1, depth)
      [] value.t = "Array"  -> WalkItems(st, path \o ArrayTag, value.items, 1, depth)
      [] OTHER              -> st

(***************************************************************************)
(* The documents the analyzer is fed.                                      *)
(***************************************************************************)

Docs ==
    { JObj(<< <<Chars("age"), JNum(30)>>, <<Chars("name"), JStr("Alice")>> >>),
      JObj(<< <<Chars("age"), JStr("30")>>, <<Chars("name"), JNull>> >>),
      JObj(<< <<Chars("addr"),
                JArr(<< JObj(<< <<Chars("city"), JStr("A")>> >>),
                        JObj(<< <<Chars("city"), JStr("B")>> >>) >>)>> >>),
      JObj(<< <<Chars("user"),
                JObj(<< <<Chars("name"), JStr("Bob")>>,
                        <<Chars("tags"), JArr(<<>>)>> >>)>> >>),
      JArr(<< JObj(<< <<Chars("age"), JBool(TRUE)>> >>),
              JArr(<< JObj(<< <<Chars("age"), JNull>> >>) >>) >>),
      JObj(<< <<Chars("addr"), JArr(<< JObj(<< <<Chars("city"), JStr("C")>> >>) >>)>>,
              <<Chars("addr[]"), JBool(TRUE)>>,
              <<Chars("user.name"), JNum(1)>> >>),
      JObj(<< <<Chars("tags"),
                JArr([i \in 1..ManyItems |-> JObj(<< <<Chars("v"), JNum(i)>> >>)])>> >>),
      JObj(<<>>),
      JNum(7) }

(***************************************************************************)
(* Analyzer actions.                                                       *)
(***************************************************************************)
\* An analyze() that counts a document only when it contributes a field.
AnalyzeCountsOnlyContributing(value) ==
    /\ ~finalized
    /\ Len(analyzed) < MaxDocs
    /\ stats' = walk(stats, <<>>, value, 0)
    /\ total_samples' = IF stats' = stats THEN total_samples ELSE total_samples + 1
    /\ analyzed' = Append(analyzed, value)
    /\ UNCHANGED <<finalized, samplerVars, driftVars, indexVars, commandVars>>

Analyze(value) ==
    /\ ~finalized
    /\ Len(analyzed) < MaxDocs
    /\ total_samples' = total_samples + 1
    /\ stats' = walk(stats, <<>>, value, 0)
    /\ analyzed' = Append(analyzed, value)
    /\ UNCHANGED <<finalized, samplerVars, driftVars, indexVars, commandVars>>

Finalize ==
    /\ ~finalized
    /\ stats' = [p \in DOMAIN stats |-> FieldFinalize(stats[p], total_samples)]
    /\ finalized' = TRUE
    /\ UNCHANGED <<total_samples, analyzed, samplerVars, driftVars, indexVars, commandVars>>

AnalyzerNew ==
    /\ stats = [p \in {} |-> FieldStatsNew(p, 0)]
    /\ total_samples = 0
    /\ finalized = FALSE
    /\ analyzed = <<>>

NoSampler ==
    /\ pc = "start"
    /\ call = None
    /\ db = None
    /\ ran = {}
    /\ count_sql = None
    /\ select_result = None
    /\ strategy = None
    /\ production_mode = FALSE
    /\ warned = FALSE
    /\ executed = None

NoDrift ==
    /\ corpus = <<>>
    /\ drift_config = None
    /\ drift_done = FALSE
    /\ issues = <<>>

\* recommend_index has not been called
NoIndex ==
    /\ index_config = None
    /\ index_call = None
    /\ index_done = FALSE
    /\ recommendations = <<>>

\* no command is running
NoCommand ==
    /\ cmd = None
    /\ cmd_pos = 0
    /\ column_results = <<>>
    /\ cmd_output = None
    /\ cmd_result = None

AnalyzerInit == AnalyzerNew /\ NoSampler /\ NoDrift /\ NoIndex /\ NoCommand

AnalyzerNext ==
    \/ \E d \in Docs : Analyze(d)
    \/ Finalize

SpecAnalyzer == AnalyzerInit /\ [][AnalyzerNext]_vars

(***************************************************************************)
(* SamplingStrategy and Sampler (pgdrift-db sampler.rs, discovery.rs).     *)
(***************************************************************************)
SmallTableRows  == 100000
MediumTableRows == 10000000

Full                 == [kind |-> "Full"]
Random(limit)        == [kind |-> "Random", limit |-> limit]
ReservoirPK(size, k) == [kind |-> "ReservoirPK", sample_size |-> size, pk |-> k]
TableSample(pct, l)  == [kind |-> "TableSample", percentage |-> pct, limit |-> l]

Ok(v)   == [ok |-> TRUE, value |-> v]
Err(e)  == [ok |-> FALSE, error |-> e]

NoEstimate  == [some |-> FALSE]
Estimate(n) == [some |-> TRUE, rows |-> n]

\* Answers of the database to a query: it fails, or it returns its rows.
QueryFailed     == [outcome |-> "failed"]
CountIs(n)      == [outcome |-> "rows", count |-> n]
NoPrimaryKey    == [outcome |-> "no row"]
PrimaryKeyIs(k) == [outcome |-> "rows", attname |-> k]

get_row_count(answer) ==
    IF answer.outcome = "failed" THEN Err("Database") ELSE Ok(answer.count)

find_primary_key(answer) ==
    CASE answer.outcome = "failed" -> Err("Database")
      [] answer.outcome = "no row" -> Err("RowNotFound")
      [] OTHER                     -> Ok(answer.attname)

\* (x as f32).clamp(lo, hi)
Clamp(x, lo, hi) == IF RLt(x, lo) THEN lo ELSE IF RLt(hi, x) THEN hi ELSE x

MinPercentage == Rat(1, 10)
MaxPercentage == Rat(100, 1)

\* The first step of auto_select: the row count it works with.
RowCountOf(estimated_rows, count_answer) ==
    IF estimated_rows.some /\ estimated_rows.rows > 0
    THEN Ok(estimated_rows.rows)
    ELSE get_row_count(count_answer)

\* The queries auto_select sends for these arguments and answers.
QueriesOf(estimated_rows, sample_size, count_answer) ==
    LET rc == RowCountOf(estimated_rows, count_answer)
    IN  (IF estimated_rows.some /\ estimated_rows.rows > 0 THEN {} ELSE {"count"})
        \cup
        (IF /\ rc.ok
            /\ ~(sample_size >= rc.value)
            /\ ~(rc.value < SmallTableRows)
            /\ rc.value < MediumTableRows
         THEN {"pk"} ELSE {})

\* An auto_select whose full-scan test is a strict comparison.
auto_select_strict_full(estimated_rows, sample_size, count_answer, pk_answer) ==
    LET rc == RowCountOf(estimated_rows, count_answer)
    IN  IF ~rc.ok THEN rc
        ELSE IF sample_size > rc.value THEN Ok(Full)
        ELSE IF rc.value < SmallTableRows THEN Ok(Random(sample_size))
        ELSE IF rc.value < MediumTableRows
             THEN LET pk == find_primary_key(pk_answer)
                  IN  IF pk.ok THEN Ok(ReservoirPK(sample_size, pk.value))
                      ELSE Ok(Random(sample_size))
        ELSE Ok(TableSample(Clamp(Rat(sample_size * 100, rc.value),
                                  MinPercentage, MaxPercentage), sample_size))

\* auto_select without the clamp of the TableSample percentage.
auto_select_unclamped(estimated_rows, sample_size, count_answer, pk_answer) ==
    LET rc == RowCountOf(estimated_rows, count_answer)
    IN  IF ~rc.ok THEN rc
        ELSE IF sample_size >= rc.value THEN Ok(Full)
        ELSE IF rc.value < SmallTableRows THEN Ok(Random(sample_size))
        ELSE IF rc.value < MediumTableRows
             THEN LET pk == find_primary_key(pk_answer)
                  IN  IF pk.ok THEN Ok(ReservoirPK(sample_size, pk.value))
                      ELSE Ok(Random(sample_size))
        ELSE Ok(TableSample(Rat(sample_size * 100, rc.value), sample_size))

auto_select(estimated_rows, sample_size, count_answer, pk_answer) ==
    LET rc == RowCountOf(estimated_rows, count_answer)
    IN  IF ~rc.ok THEN rc
        ELSE IF sample_size >= rc.value THEN Ok(Full)
        ELSE IF rc.value < SmallTableRows THEN Ok(Random(sample_size))
        ELSE IF rc.value < MediumTableRows
             THEN LET pk == find_primary_key(pk_answer)
                  IN  IF pk.ok THEN Ok(ReservoirPK(sample_size, pk.value))
                      ELSE Ok(Random(sample_size))
        ELSE Ok(TableSample(Clamp(Rat(sample_size * 100, rc.value),
                                  MinPercentage, MaxPercentage), sample_size))

Quote == "\""

RECURSIVE DoubleQuotes(_)
\* identifier.replace("\"", "\"\"")
DoubleQuotes(s) ==
    IF s = <<>> THEN <<>>
    ELSE (IF Head(s) = Quote THEN <<Quote, Quote>> ELSE <<Head(s)>>)
         \o DoubleQuotes(Tail(s))

quote_identifier(identifier) == <<Quote>> \o DoubleQuotes(identifier) \o <<Quote>>

\* build_query without its WHERE clause.
build_query_unfiltered(strat, schema, table, column) ==
    Chars("SELECT ") \o quote_identifier(column) \o Chars(" FROM ")
    \o quote_identifier(schema) \o <<".">> \o quote_identifier(table)

\* The text format! builds for each strategy.
build_query(strat, schema, table, column) ==
    LET schema_quoted == quote_identifier(schema)
        table_quoted  == quote_identifier(table)
        column_quoted == quote_identifier(column)
    IN  CASE strat.kind = "Full" ->
               Chars("SELECT ") \o column_quoted \o Chars(" FROM ")
               \o schema_quoted \o <<".">> \o table_quoted
               \o Chars(" WHERE ") \o column_quoted \o Chars(" IS NOT NULL")
          [] strat.kind = "Random" ->
               Chars("SELECT ") \o column_quoted \o Chars(" FROM ")
               \o schema_quoted \o <<".">> \o table_quoted
               \o Chars(" WHERE ") \o column_quoted
               \o Chars(" IS NOT NULL ORDER BY random() LIMIT ") \o Decimal(strat.limit)
          [] strat.kind = "ReservoirPK" ->
               LET pk_quoted == quote_identifier(strat.pk)
               IN  Chars("WITH random_ids AS (") \o NewLine \o Spaces(24)
                   \o Chars("SELECT floor(random() * (SELECT MAX(") \o pk_quoted
                   \o Chars(") FROM ") \o schema_quoted \o <<".">> \o table_quoted
                   \o Chars("))::bigint AS rand_id") \o NewLine \o Spaces(24)
                   \o Chars("FROM generate_series(1, ") \o Decimal(strat.sample_size)
                   \o Chars(" * 2)") \o NewLine \o Spaces(20)
                   \o Chars(")") \o NewLine \o Spaces(20)
                   \o Chars("SELECT t.") \o column_quoted \o NewLine \o Spaces(20)
                   \o Chars("FROM ") \o schema_quoted \o <<".">> \o table_quoted
                   \o Chars(" t") \o NewLine \o Spaces(20)
                   \o Chars("INNER JOIN random_ids r ON t.") \o pk_quoted
                   \o Chars(" = r.rand_id") \o NewLine \o Spaces(20)
                   \o Chars("WHERE t.") \o column_quoted
                   \o Chars(" IS NOT NULL") \o NewLine \o Spaces(20)
                   \o Chars("LIMIT ") \o Decimal(strat.sample_size)
          [] strat.kind = "TableSample" ->
               Chars("SELECT ") \o column_quoted \o Chars(" FROM ")
               \o schema_quoted \o <<".">> \o table_quoted
               \o Chars(" TABLESAMPLE BERNOULLI(") \o DisplayFloat(strat.percentage)
               \o Chars(") WHERE ") \o column_quoted
               \o Chars(" IS NOT NULL LIMIT ") \o Decimal(strat.limit)

\* The text of the query get_row_count sends (discovery.rs).
count_query(schema, table) ==
    Chars("SELECT COUNT(*) FROM ") \o quote_identifier(schema)
    \o <<".">> \o quote_identifier(table)

ProductionCap == ROne

(***************************************************************************)
(* The arguments and database answers the sampler is run with.             *)
(***************************************************************************)
I_id       == <<"i", "d">>
I_hostile  == <<"x", Quote, ";", "-", "-">>

RowCounts   == {0, 50, 99999, 100000, 5000000, 9999999, 10000000, 20000000}
SampleSizes == {0, 10, 5000, 150000, 200000, 20000000}
Estimates   == {NoEstimate, Estimate(0), Estimate(-1)}
               \cup {Estimate(n) : n \in {50, 100000, 10000000}}
CountAnswers == {QueryFailed} \cup {CountIs(n) : n \in RowCounts}
PkAnswers    == {QueryFailed, NoPrimaryKey, PrimaryKeyIs(I_id), PrimaryKeyIs(I_hostile)}
GivenStrategies == {Full, Random(10), ReservoirPK(10, I_id),
                    TableSample(Rat(1, 2), 10), TableSample(Rat(5, 1), 10)}
\* schema, table and column of the sampled JSONB column
Targets     == { <<Chars("public"), Chars("users"), Chars("metadata")>>,
                 <<<<"a", Quote, "b">>, I_hostile, <<Quote, "c", Quote>>>> }

(***************************************************************************)
(* Sampler actions.                                                        *)
(***************************************************************************)
\* Sampler::new
SamplerNew(schema, table, estimated_rows, sample_size, count_answer, pk_answer) ==
    /\ pc = "start"
    /\ call' = [schema |-> schema, table |-> table,
                estimated_rows |-> estimated_rows, sample_size |-> sample_size]
    /\ db' = [count |-> count_answer, pk |-> pk_answer]
    /\ ran' = QueriesOf(estimated_rows, sample_size, count_answer)
    /\ count_sql' = IF "count" \in QueriesOf(estimated_rows, sample_size, count_answer)
                    THEN count_query(schema, table) ELSE None
    /\ LET r == auto_select(estimated_rows, sample_size, count_answer, pk_answer)
       IN  /\ select_result' = r
           /\ strategy' = IF r.ok THEN r.value ELSE strategy
           /\ pc' = IF r.ok THEN "created" ELSE "failed"
    /\ UNCHANGED <<production_mode, warned, executed, analyzerVars, driftVars, indexVars, commandVars>>

\* Sampler::with_strategy
WithStrategy(strat) ==
    /\ pc = "start"
    /\ strategy' = strat
    /\ pc' = "created"
    /\ UNCHANGED <<call, db, ran, count_sql, select_result, production_mode, warned,
                   executed, analyzerVars, driftVars, indexVars, commandVars>>

\* Sampler::production_mode
ProductionMode(enabled) ==
    /\ pc = "created"
    /\ production_mode # enabled
    /\ production_mode' = enabled
    /\ UNCHANGED <<pc, call, db, ran, count_sql, select_result, strategy, warned,
                   executed, analyzerVars, driftVars, indexVars, commandVars>>

\* Sampler::sample, up to the query it sends
Sample(schema, table, column) ==
    /\ pc = "created"
    /\ warned' = (/\ production_mode
                  /\ strategy.kind = "TableSample"
                  /\ RLt(ProductionCap, strategy.percentage))
    /\ executed' = build_query(strategy, schema, table, column)
    /\ pc' = "sampled"
    /\ UNCHANGED <<call, db, ran, count_sql, select_result, strategy, production_mode,
                   analyzerVars, driftVars, indexVars, commandVars>>

SamplerInit == NoSampler /\ AnalyzerNew /\ NoDrift /\ NoIndex /\ NoCommand

SamplerNext ==
    \/ \E t \in Targets, e \in Estimates, n \in SampleSizes,
          c \in CountAnswers, k \in PkAnswers :
          SamplerNew(t[1], t[2], e, n, c, k)
    \/ \E st \in GivenStrategies : WithStrategy(st)
    \/ \E b \in BOOLEAN : ProductionMode(b)
    \/ \E t \in Targets : Sample(t[1], t[2], t[3])

SpecSampler == SamplerInit /\ [][SamplerNext]_vars

(***************************************************************************)
(* Strings: characters, their byte order, and the str methods used.        *)
(***************************************************************************)
LowerChars == <<"a", "b", "c", "d", "e", "f", "g", "h", "i", "j", "k", "l", "m",
                "n", "o", "p", "q", "r", "s", "t", "u", "v", "w", "x", "y", "z">>
UpperChars == <<"A", "B", "C", "D", "E", "F", "G", "H", "I", "J", "K", "L", "M",
                "N", "O", "P", "Q", "R", "S", "T", "U", "V", "W", "X", "Y", "Z">>

IndexIn(seq, c) == CHOOSE i \in 1..Len(seq) : seq[i] = c
InSeq(seq, c)   == \E i \in 1..Len(seq) : seq[i] = c

\* The byte of an ASCII character.
Byte(c) ==
    CASE InSeq(LowerChars, c) -> 96 + IndexIn(LowerChars, c)
      [] InSeq(UpperChars, c) -> 64 + IndexIn(UpperChars, c)
      [] InSeq(DigitChars, c) -> 47 + IndexIn(DigitChars, c)
      [] c = Quote -> 34
      [] c = "'"   -> 39
      [] c = ","   -> 44
      [] c = "-"   -> 45
      [] c = "."   -> 46
      [] c = ";"   -> 59
      [] c = "["   -> 91
      [] c = "]"   -> 93
      [] c = "_"   -> 95

\* Ord::cmp on str: "Less", "Equal" or "Greater", byte by byte
RECURSIVE StrCmp(_, _)
StrCmp(a, b) ==
    IF a = <<>> /\ b = <<>> THEN "Equal"
    ELSE IF a = <<>> THEN "Less"
    ELSE IF b = <<>> THEN "Greater"
    ELSE IF Byte(Head(a)) < Byte(Head(b)) THEN "Less"
    ELSE IF Byte(Head(a)) > Byte(Head(b)) THEN "Greater"
    ELSE StrCmp(Tail(a), Tail(b))

to_lowercase(s) ==
    [i \in 1..Len(s) |->
        IF InSeq(UpperChars, s[i]) THEN LowerChars[IndexIn(UpperChars, s[i])] ELSE s[i]]

starts_with(s, prefix) ==
    Len(s) >= Len(prefix) /\ SubSeq(s, 1, Len(prefix)) = prefix

\* Positions at which pat occurs in s.
Occurrences(s, pat) ==
    {i \in 1..(Len(s) - Len(pat) + 1) : SubSeq(s, i, i + Len(pat) - 1) = pat}

Min(S) == CHOOSE x \in S : \A y \in S : x <= y
Max(S) == CHOOSE x \in S : \A y \in S : x >= y

\* s.replacen(pat, "", 1)
RemoveFirst(s, pat) ==
    IF Occurrences(s, pat) = {} THEN s
    ELSE LET i == Min(Occurrences(s, pat))
         IN  SubSeq(s, 1, i - 1) \o SubSeq(s, i + Len(pat), Len(s))

\* s.split(sep) for a one-character separator
RECURSIVE split(_, _)
split(s, sep) ==
    IF Occurrences(s, <<sep>>) = {} THEN <<s>>
    ELSE LET i == Min(Occurrences(s, <<sep>>))
         IN  <<SubSeq(s, 1, i - 1)>> \o split(SubSeq(s, i + 1, Len(s)), sep)

\* s.rsplit_once(sep).map(|(base, _)| base)
rsplit_once_base(s, sep) ==
    IF Occurrences(s, <<sep>>) = {} THEN None
    ELSE [kind |-> "Some", base |-> SubSeq(s, 1, Max(Occurrences(s, <<sep>>)) - 1)]

(***************************************************************************)
(* Severity, DriftIssue and DriftConfig (drift.rs).                        *)
(***************************************************************************)
SeverityRank(sev) == CASE sev = "Info" -> 0 [] sev = "Warning" -> 1 [] sev = "Critical" -> 2

\* A severity whose MissingKey bands include their upper ends.
severity_inclusive(issue) ==
    CASE issue.kind = "TypeInconsistency" ->
             IF RLe(Rat(10, 1), issue.minority_percentage) THEN "Critical"
             ELSE IF RLe(Rat(5, 1), issue.minority_percentage) THEN "Warning"
             ELSE "Info"
      [] issue.kind = "MissingKey" ->
             IF RLe(issue.density, Rat(90, 100)) THEN "Critical"
             ELSE IF RLe(issue.density, Rat(95, 100)) THEN "Warning"
             ELSE "Info"
      [] issue.kind = "GhostKey"        -> "Info"
      [] issue.kind = "SparseField"     -> "Info"
      [] issue.kind = "SchemaEvolution" -> "Warning"

severity(issue) ==
    CASE issue.kind = "TypeInconsistency" ->
             IF RLe(Rat(10, 1), issue.minority_percentage) THEN "Critical"
             ELSE IF RLe(Rat(5, 1), issue.minority_percentage) THEN "Warning"
             ELSE "Info"
      [] issue.kind = "MissingKey" ->
             IF RLt(issue.density, Rat(90, 100)) THEN "Critical"
             ELSE IF RLt(issue.density, Rat(95, 100)) THEN "Warning"
             ELSE "Info"
      [] issue.kind = "GhostKey"        -> "Info"
      [] issue.kind = "SparseField"     -> "Info"
      [] issue.kind = "SchemaEvolution" -> "Warning"

DriftConfig(ti, ghost, sparse, missing, evolution) ==
    [ type_inconsistency_threshold |-> ti,
      ghost_key_threshold          |-> ghost,
      sparse_field_threshold       |-> sparse,
      missing_key_threshold        |-> missing,
      detect_schema_evolution      |-> evolution ]

\* A default whose missing-key band reaches up to 0.99.
DefaultDriftConfig_wide ==
    DriftConfig(Rat(5, 1), Rat(10, 100), Rat(80, 100), Rat(99, 100), TRUE)

DefaultDriftConfig ==
    DriftConfig(Rat(5, 1), Rat(10, 100), Rat(80, 100), Rat(95, 100), TRUE)

(***************************************************************************)
(* The per-field heuristics (drift.rs).  Each returns a sequence holding   *)
(* the issue, or the empty sequence for Option::None.                      *)
(***************************************************************************)
MaxCount(types) == Max({types[j] : j \in DOMAIN types})

\* stats.types.values().filter(|&&c| c != max_count).sum()
MinorityCount(types) ==
    LET max_count == MaxCount(types)
        rest      == {j \in DOMAIN types : types[j] # max_count}
    IN  SumTypes([j \in rest |-> types[j]])

detect_type_inconsistency(fs, config) ==
    IF Cardinality(DOMAIN fs.types) < 2 THEN <<>>
    ELSE LET total_typed == SumTypes(fs.types)
         IN  IF total_typed = 0 THEN <<>>
             ELSE LET dist == [j \in DOMAIN fs.types |->
                                  [ json_type  |-> j,
                                    count      |-> fs.types[j],
                                    percentage |-> Rat(fs.types[j] * 100, total_typed) ]]
                      minority_percentage ==
                          Rat(MinorityCount(fs.types) * 100, total_typed)
                  IN  IF RLe(config.type_inconsistency_threshold, minority_percentage)
                      THEN << [ kind |-> "TypeInconsistency",
                                path |-> fs.path,
                                types |-> dist,
                                minority_percentage |-> minority_percentage ] >>
                      ELSE <<>>

detect_ghost_key(fs, config) ==
    IF RLe(fs.density, config.ghost_key_threshold) /\ RLt(RZero, fs.density)
    THEN << [ kind |-> "GhostKey", path |-> fs.path, density |-> fs.density,
              occurunces |-> fs.occurrences, total_samples |-> fs.total_samples ] >>
    ELSE <<>>

\* A sparse-field test whose upper end is open.
detect_sparse_field_open(fs, config) ==
    IF RLt(config.ghost_key_threshold, fs.density)
       /\ RLt(fs.density, config.sparse_field_threshold)
    THEN << [ kind |-> "SparseField", path |-> fs.path, density |-> fs.density,
              occurrences |-> fs.occurrences, total_samples |-> fs.total_samples ] >>
    ELSE <<>>

detect_sparse_field(fs, config) ==
    IF RLt(config.ghost_key_threshold, fs.density)
       /\ RLe(fs.density, config.sparse_field_threshold)
    THEN << [ kind |-> "SparseField", path |-> fs.path, density |-> fs.density,
              occurrences |-> fs.occurrences, total_samples |-> fs.total_samples ] >>
    ELSE <<>>

detect_missing_key(fs, config) ==
    IF RLt(config.sparse_field_threshold, fs.density)
       /\ RLt(fs.density, config.missing_key_threshold)
    THEN << [ kind |-> "MissingKey", path |-> fs.path, density |-> fs.density,
              expected_occurrences |-> fs.total_samples,
              actual_occurrences |-> fs.occurrences ] >>
    ELSE <<>>

(***************************************************************************)
(* detect_schema_evolution and detect_drift (drift.rs).                    *)
(* `order` is the iteration order of the stats HashMap during the call,    *)
(* `family_order` that of the path_families HashMap.                       *)
(***************************************************************************)
RAdd(a, b) == Rat(a.num * b.den + b.num * a.den, a.den * b.den)
RSub(a, b) == Rat(a.num * b.den - b.num * a.den, a.den * b.den)
RAbs(a)    == Rat(IF a.num < 0 THEN -a.num ELSE a.num, a.den)
RMax(a, b) == IF RLt(a, b) THEN b ELSE a

\* The orders in which a HashMap may hand out the keys in S.
Orders(S) ==
    {f \in [1..Cardinality(S) -> S] : \A i, j \in 1..Cardinality(S) : f[i] = f[j] => i = j}

RECURSIVE Concat(_, _)
\* The concatenation of seqs[i], seqs[i + 1], ...: what a loop that pushes
\* each Some(issue) it meets has collected.
Concat(seqs, i) ==
    IF i > Len(seqs) THEN <<>> ELSE seqs[i] \o Concat(seqs, i + 1)

version_markers ==
    { <<"v", "e", "r", "s", "i", "o", "n">>,
      <<"s", "c", "h", "e", "m", "a", "_", "v", "e", "r", "s", "i", "o", "n">>,
      <<"v">>,
      <<"a", "p", "i", "_", "v", "e", "r", "s", "i", "o", "n">> }

deprecated_prefixes ==
    << <<"o", "l", "d", "_">>,
       <<"l", "e", "g", "a", "c", "y", "_">>,
       <<"d", "e", "p", "r", "e", "c", "a", "t", "e", "d", "_">> >>

VersionMarkerIssue(path) ==
    LET segs == split(path, ".")
    IN  IF \E i \in 1..Len(segs) : to_lowercase(segs[i]) \in version_markers
        THEN << [ kind |-> "SchemaEvolution", path |-> path,
                  pattern |-> [kind |-> "VersionMarker", marker_path |-> path] ] >>
        ELSE <<>>

DeprecatedNamingIssue(st, path) ==
    LET hits == {i \in 1..Len(deprecated_prefixes) :
                    starts_with(to_lowercase(path), deprecated_prefixes[i])}
    IN  IF hits = {} THEN <<>>
        ELSE LET potential_new == RemoveFirst(path, deprecated_prefixes[Min(hits)])
             IN  IF potential_new \in DOMAIN st
                 THEN << [ kind |-> "SchemaEvolution", path |-> path,
                           pattern |-> [ kind |-> "DeprecatedNaming",
                                         old_path |-> path,
                                         new_path |-> potential_new ] ] >>
                 ELSE <<>>

\* path_families: base -> the paths pushed under it, in iteration order
PathFamilies(order) ==
    LET based == {i \in 1..Len(order) : rsplit_once_base(order[i], "_") # None}
        bases == {rsplit_once_base(order[i], "_").base : i \in based}
        Pick(b, i) == IF i \in based /\ rsplit_once_base(order[i], "_").base = b
                      THEN <<order[i]>> ELSE <<>>
        RECURSIVE Members(_, _)
        Members(b, i) == IF i > Len(order) THEN <<>> ELSE Pick(b, i) \o Members(b, i + 1)
    IN  [b \in bases |-> Members(b, 1)]

\* A variant that also reports a family of one path.
MutuallyExclusiveIssue_single(st, base, paths) ==
    LET RECURSIVE Sum(_), Largest(_)
        Sum(i)     == IF i > Len(paths) THEN RZero
                      ELSE RAdd(st[paths[i]].density, Sum(i + 1))
        Largest(i) == IF i > Len(paths) THEN RZero
                      ELSE RMax(st[paths[i]].density, Largest(i + 1))
    IN  IF RLt(RAbs(RSub(Sum(1), Largest(1))), Rat(1, 10))
        THEN << [ kind |-> "SchemaEvolution", path |-> base,
                  pattern |-> [kind |-> "MutuallyExclusive", paths |-> paths] ] >>
        ELSE <<>>

MutuallyExclusiveIssue(st, base, paths) ==
    IF Len(paths) < 2 THEN <<>>
    ELSE LET RECURSIVE Sum(_), Largest(_)
             Sum(i)     == IF i > Len(paths) THEN RZero
                           ELSE RAdd(st[paths[i]].density, Sum(i + 1))
             Largest(i) == IF i > Len(paths) THEN RZero
                           ELSE RMax(st[paths[i]].density, Largest(i + 1))
         IN  IF RLt(RAbs(RSub(Sum(1), Largest(1))), Rat(1, 10))
             THEN << [ kind |-> "SchemaEvolution", path |-> base,
                       pattern |-> [kind |-> "MutuallyExclusive", paths |-> paths] ] >>
             ELSE <<>>

detect_schema_evolution(st, order, family_order) ==
    LET families == PathFamilies(order)
    IN  Concat([i \in 1..Len(order) |-> VersionMarkerIssue(order[i])], 1)
        \o Concat([i \in 1..Len(order) |-> DeprecatedNamingIssue(st, order[i])], 1)
        \o Concat([i \in 1..Len(family_order) |->
                      MutuallyExclusiveIssue(st, family_order[i],
                                             families[family_order[i]])], 1)

\* A comparator that ranks the lower severity first.
IssueCmpAscendingSeverity(a, b) ==
    IF SeverityRank(severity(a)) < SeverityRank(severity(b)) THEN "Less"
    ELSE IF SeverityRank(severity(a)) > SeverityRank(severity(b)) THEN "Greater"
    ELSE StrCmp(a.path, b.path)

\* b.severity().cmp(&a.severity()).then_with(|| a.path().cmp(b.path()))
IssueCmp(a, b) ==
    IF SeverityRank(severity(b)) < SeverityRank(severity(a)) THEN "Less"
    ELSE IF SeverityRank(severity(b)) > SeverityRank(severity(a)) THEN "Greater"
    ELSE StrCmp(a.path, b.path)

\* slice::sort_by: a stable sort, here by insertion from left to right
RECURSIVE SortIssues(_, _)
SortIssues(seq, done) ==
    IF seq = <<>> THEN done
    ELSE LET x      == Head(seq)
             after  == {i \in 1..Len(done) : IssueCmp(done[i], x) = "Greater"}
             at     == IF after = {} THEN Len(done) + 1 ELSE Min(after)
         IN  SortIssues(Tail(seq),
                        SubSeq(done, 1, at - 1) \o <<x>> \o SubSeq(done, at, Len(done)))

detect_drift(st, cfg, order, family_order) ==
    LET PerField(p) == detect_type_inconsistency(st[p], cfg)
                       \o detect_ghost_key(st[p], cfg)
                       \o detect_sparse_field(st[p], cfg)
                       \o detect_missing_key(st[p], cfg)
        collected   == Concat([i \in 1..Len(order) |-> PerField(order[i])], 1)
                       \o (IF cfg.detect_schema_evolution
                           THEN detect_schema_evolution(st, order, family_order)
                           ELSE <<>>)
    IN  SortIssues(collected, <<>>)

(***************************************************************************)
(* The statistics and configurations detect_drift is run on.  A corpus is  *)
(* DriftSamples flat documents; a profile says, for one key, in how many   *)
(* of them it occurs and with which types.  The statistics are the ones    *)
(* the analyzer computes for the corpus.                                   *)
(***************************************************************************)
DriftSamples == 20
MaxFields    == 2


\* in the order of the documents' maps
DriftKeys == <<Chars("Old_name"), Chars("Version"), Chars("addr_v1"), Chars("addr_v2"),
               Chars("name"), Chars("old_name")>>

\* All keys a corpus document may hold, in the order of the documents' maps
CorpusKeys == <<Chars("Old_name"), Chars("Version"), Chars("addr.v1"), Chars("addr_v1"), Chars("addr_v2"),
                Chars("name"), Chars("old_name")>>

Profiles ==
    { << <<"String", 20>> >>,
      << <<"String", 18>>, <<"Number", 1>> >>,
      << <<"String", 9>>, <<"Number", 9>> >>,
      << <<"Null", 2>> >>,
      << <<"String", 1>> >>,
      << <<"String", 8>>, <<"Number", 8>>, <<"Boolean", 1>> >>,
      << <<"Number", 12>>, <<"String", 4>> >>,
      << <<"String", 18>>, <<"Number", 2>> >> }

DriftConfigs ==
    { DefaultDriftConfig,
      DriftConfig(Rat(10, 1), Rat(5, 1000), Rat(70, 100), Rat(99, 100), FALSE),
      DriftConfig(Rat(0, 1),  Rat(90, 100), Rat(90, 100), Rat(90, 100), TRUE),
      DriftConfig(Rat(50, 1), Rat(10, 100), Rat(85, 100), Rat(85, 100), TRUE),
      DriftConfig(Rat(5, 1),  Rat(80, 100), Rat(10, 100), Rat(95, 100), FALSE),
      DriftConfig(Rat(1, 1),  Rat(20, 100), Rat(90, 100), Rat(1, 1),    TRUE) }

ValueOfType(t) ==
    CASE t = "Null"    -> JNull
      [] t = "Boolean" -> JBool(TRUE)
      [] t = "Number"  -> JNum(1)
      [] t = "String"  -> JStr("s")
      [] t = "Array"   -> JArr(<<>>)
      [] t = "Object"  -> JObj(<<>>)

RECURSIVE ProfileCount(_, _), ProfileTypeAt(_, _, _)
\* The number of documents the key occurs in.
ProfileCount(profile, j) ==
    IF j > Len(profile) THEN 0 ELSE profile[j][2] + ProfileCount(profile, j + 1)

\* The type of the key's value in its i-th document.
ProfileTypeAt(profile, j, i) ==
    IF i <= profile[j][2] THEN profile[j][1]
    ELSE ProfileTypeAt(profile, j + 1, i - profile[j][2])

\* The i-th document of the corpus in which each key of DOMAIN assign has
\* the profile assign[key], scaled down to the corpus when it is smaller.
CorpusDoc(assign, i) ==
    LET Entry(k) == IF k \in DOMAIN assign /\ i <= ProfileCount(assign[k], 1)
                    THEN << <<k, ValueOfType(ProfileTypeAt(assign[k], 1, i))>> >>
                    ELSE <<>>
    IN  JObj(Concat([j \in 1..Len(CorpusKeys) |-> Entry(CorpusKeys[j])], 1))

Corpus(assign) == [i \in 1..DriftSamples |-> CorpusDoc(assign, i)]

\* A JsonAnalyzer value: JsonAnalyzer::new, analyze and finalize as operators
NewAnalyzer == [stats |-> <<>>, total_samples |-> 0]

AnalyzerAnalyze(a, value) ==
    [stats |-> walk(a.stats, <<>>, value, 0), total_samples |-> a.total_samples + 1]

AnalyzerFinalize(a) ==
    [p \in DOMAIN a.stats |-> FieldFinalize(a.stats[p], a.total_samples)]

RECURSIVE AnalyzeAll(_, _)
\* for sample in &samples { analyzer.analyze(sample) }; analyzer.finalize()
AnalyzeAll(a, docs) ==
    IF a.total_samples >= Len(docs) THEN AnalyzerFinalize(a)
    ELSE AnalyzeAll(AnalyzerAnalyze(a, docs[a.total_samples + 1]), docs)

KeySets == {K \in SUBSET {DriftKeys[i] : i \in 1..Len(DriftKeys)} : Cardinality(K) <= MaxFields}

\* The profiles a key is given: the capitalised key differs from the others
\* by its name only, and takes one profile.
ProfilesOf(k) == IF k = Chars("Old_name") THEN { << <<"Null", 2>> >> } ELSE Profiles

Corpora(K) == {assign \in [K -> Profiles] : \A k \in K : assign[k] \in ProfilesOf(k)}

(***************************************************************************)
(* detect_drift as an action on a finalized statistics map.                *)
(***************************************************************************)
DetectDrift ==
    /\ finalized
    /\ ~drift_done
    /\ drift_done' = TRUE
    /\ \E order \in Orders(DOMAIN stats) :
          \E family_order \in Orders(DOMAIN PathFamilies(order)) :
              issues' = detect_drift(stats, drift_config, order, family_order)
    /\ UNCHANGED <<corpus, drift_config, analyzerVars, samplerVars, indexVars, commandVars>>

DriftInit ==
    /\ \E K \in KeySets : corpus \in Corpora(K)
    /\ stats = AnalyzeAll(NewAnalyzer, Corpus(corpus))
    /\ total_samples = DriftSamples
    /\ finalized = TRUE
    /\ analyzed = <<>>
    /\ drift_config \in DriftConfigs
    /\ drift_done = FALSE
    /\ issues = <<>>
    /\ NoSampler
    /\ NoIndex
    /\ NoCommand

DriftNext == DetectDrift

SpecDrift == DriftInit /\ [][DriftNext]_vars

(***************************************************************************)
(* Text produced by format!.                                               *)
(***************************************************************************)
\* {:.1} of a non-negative f64: the nearest tenth, a tie going to the even one
FormatOneDecimal(r) ==
    LET q      == (r.num * 10) \div r.den
        twice  == 2 * ((r.num * 10) % r.den)
        tenths == IF twice > r.den \/ (twice = r.den /\ q % 2 = 1) THEN q + 1 ELSE q
    IN  Decimal(tenths \div 10) \o <<".">> \o Decimal(tenths % 10)

\* density * 100.0
Percent(density) == Rat(density.num * 100, density.den)

RECURSIVE Join(_, _, _)
\* parts[i..].join(sep)
Join(parts, sep, i) ==
    IF i > Len(parts) THEN <<>>
    ELSE IF i = Len(parts) THEN parts[i]
    ELSE parts[i] \o sep \o Join(parts, sep, i + 1)

RECURSIVE ReplaceAll(_, _, _)
\* s.replace(pat, by)
ReplaceAll(s, pat, by) ==
    IF Occurrences(s, pat) = {} THEN s
    ELSE LET i == Min(Occurrences(s, pat))
         IN  SubSeq(s, 1, i - 1) \o by
             \o ReplaceAll(SubSeq(s, i + Len(pat), Len(s)), pat, by)

is_alphanumeric(c) ==
    InSeq(LowerChars, c) \/ InSeq(UpperChars, c) \/ InSeq(DigitChars, c)

(***************************************************************************)
(* generate_index_name and calculate_simple_hash (index.rs).  The u32 hash *)
(* is kept as its two 16-bit halves, so that the wrapping arithmetic is    *)
(* exact.                                                                  *)
(***************************************************************************)
Half == 65536

RECURSIVE HashFold(_, _, _)
\* fold(.., |hash, b| hash.wrapping_mul(31).wrapping_add(b as u32)) from byte i on
HashFold(s, i, h) ==
    IF h.lo >= 0 /\ i <= Len(s)
    THEN LET lo == h.lo * 31 + Byte(s[i])
             hi == h.hi * 31 + (lo \div Half)
         IN  HashFold(s, i + 1, [hi |-> hi % Half, lo |-> lo % Half])
    ELSE h

calculate_simple_hash(s) == HashFold(s, 1, [hi |-> 0, lo |-> 0])

HexChars == <<"0", "1", "2", "3", "4", "5", "6", "7", "8", "9",
              "a", "b", "c", "d", "e", "f">>

RECURSIVE Hex(_)
Hex(n) == IF n < 16 THEN <<HexChars[n + 1]>>
          ELSE Hex(n \div 16) \o <<HexChars[(n % 16) + 1]>>

\* {:x} of a u32
LowerHex(h) ==
    IF h.hi = 0 THEN Hex(h.lo)
    ELSE Hex(h.hi) \o <<HexChars[(h.lo \div 4096) + 1],
                        HexChars[((h.lo \div 256) % 16) + 1],
                        HexChars[((h.lo \div 16) % 16) + 1],
                        HexChars[(h.lo % 16) + 1]>>

MaxIdentifierLen == 63

generate_index_name(table, column, path, index_type) ==
    LET replaced   == ReplaceAll(ReplaceAll(path, <<"[", "]">>, Chars("_arr")),
                                 <<".">>, <<"_">>)
        clean_path == SelectSeq(replaced, LAMBDA c : is_alphanumeric(c) \/ c = "_")
        prefix     == Chars("idx_") \o table \o <<"_">> \o column \o <<"_">>
                      \o clean_path \o <<"_">> \o index_type
    IN  IF Len(prefix) <= MaxIdentifierLen THEN prefix
        ELSE LET hash         == LowerHex(calculate_simple_hash(prefix))
                 truncate_len == MaxIdentifierLen - Len(hash) - 1
             IN  SubSeq(prefix, 1, truncate_len) \o <<"_">> \o hash

RemoveArrayTags(part) == ReplaceAll(part, <<"[", "]">>, <<>>)

json_path_to_sql_conditions(path) ==
    LET parts == split(path, ".")
    IN  IF Len(parts) = 1
        THEN Chars("metadata ? '") \o RemoveArrayTags(parts[1]) \o <<"'">>
        ELSE LET parents     == [i \in 1..(Len(parts) - 1) |-> RemoveArrayTags(parts[i])]
                 parent_path == Join(parents, <<",">>, 1)
                 last        == RemoveArrayTags(parts[Len(parts)])
             IN  Chars("metadata #> '{") \o parent_path \o Chars("}' ? '")
                 \o last \o <<"'">>

escape_json_path(path) ==
    ReplaceAll(ReplaceAll(ReplaceAll(path, <<"[", "]">>, <<>>), <<"'">>, <<"'", "'">>),
               <<".">>, <<",">>)

(***************************************************************************)
(* IndexConfig, get_dominant_type and the three recommendations            *)
(* (index.rs).  get_dominant_type is max_by_key over the types HashMap:    *)
(* of the buckets with the largest count the one met last, so it is given  *)
(* the order in which the map is iterated during the call.                 *)
(***************************************************************************)
IndexConfig(high, medium, min_occ) ==
    [ high_density_threshold   |-> high,
      medium_density_threshold |-> medium,
      min_occurences           |-> min_occ ]

DefaultIndexConfig == IndexConfig(Rat(8, 10), Rat(2, 10), 100)

Some(x) == [kind |-> "Some", value |-> x]

get_dominant_type(fs, type_order) ==
    IF Len(type_order) = 0 THEN None
    ELSE LET best == {i \in 1..Len(type_order) :
                         \A j \in 1..Len(type_order) :
                             fs.types[type_order[j]] <= fs.types[type_order[i]]}
         IN  Some(type_order[Max(best)])

is_scalar_type(json_type) ==
    json_type \in {Some("String"), Some("Number"), Some("Boolean")}

\* impl Display for JsonType
DisplayJsonType(t) ==
    CASE t = "Null"    -> Chars("null")
      [] t = "Boolean" -> Chars("boolean")
      [] t = "Number"  -> Chars("number")
      [] t = "String"  -> Chars("string")
      [] t = "Array"   -> Chars("array")
      [] t = "Object"  -> Chars("object")

IndexRecommendation(field_path, index_type, priority, reason, sql, benefit) ==
    [ field_path        |-> field_path,
      index_type        |-> index_type,
      priority          |-> priority,
      reason            |-> reason,
      sql               |-> sql,
      estimated_benefit |-> benefit ]

\* "{} ({:.1}%)" of a field
FieldListEntry(fs) ==
    fs.path \o Chars(" (") \o FormatOneDecimal(Percent(fs.density)) \o Chars("%)")

create_consolidated_gin_recommendation(table, column, primary_stats, all_high_density, priority) ==
    LET index_name == generate_index_name(table, column, Chars("gin"), Chars("gin"))
        field_list == Join([i \in 1..Len(all_high_density) |->
                               FieldListEntry(all_high_density[i])], Chars(", "), 1)
        sql        == Chars("-- GIN index for high-density fields: ") \o field_list
                      \o NewLine \o Chars("CREATE INDEX ") \o index_name
                      \o Chars(" ON ") \o table \o Chars(" USING GIN (") \o column
                      \o Chars(");")
        reason     ==
            IF Len(all_high_density) = 1
            THEN Chars("High density (")
                 \o FormatOneDecimal(Percent(primary_stats.density))
                 \o Chars("%) - present in ") \o Decimal(primary_stats.occurrences)
                 \o <<"/">> \o Decimal(primary_stats.total_samples)
                 \o Chars(" samples. GIN index enables fast JSONB queries (@>, ?, ?&, ?|)")
            ELSE Decimal(Len(all_high_density)) \o Chars(" high-density fields (")
                 \o field_list
                 \o Chars("). Single GIN index supports fast JSONB queries (@>, ?, ?&, ?|) for all fields.")
    IN  IndexRecommendation(primary_stats.path, "Gin", priority, reason, sql,
            Chars("Improved query performance for existence checks and containment queries across all high-density fields."))

create_partial_gin_recommendation(table, column, fs, priority) ==
    LET index_name     == generate_index_name(table, column, fs.path, Chars("partial_gin"))
        path_condition == json_path_to_sql_conditions(fs.path)
        percent        == FormatOneDecimal(Percent(fs.density))
        sql            == Chars("-- Partial GIN index for sparse field: ") \o percent
                          \o Chars("% of rows contain this field") \o NewLine
                          \o Chars("CREATE INDEX ") \o index_name \o Chars(" ON ")
                          \o table \o Chars(" USING GIN (") \o column
                          \o Chars(") WHERE ") \o path_condition \o <<";">>
        reason         == Chars("Sparce field (") \o percent \o Chars("%) - only ")
                          \o Decimal(fs.occurrences) \o <<"/">>
                          \o Decimal(fs.total_samples)
                          \o Chars(" sample have this field. Partial index reduces index size and maintenance cost")
    IN  IndexRecommendation(fs.path, "Partial", priority, reason, sql,
            Chars("Smaller index (~") \o percent
            \o Chars("% of full GIN), faster updates, same query performance for matching rows"))

create_btree_extracted_recommendation(table, column, fs, json_type, priority) ==
    LET index_name == generate_index_name(table, column, fs.path, Chars("btree_ext"))
        extracted  == column \o Chars(" #>> '{") \o escape_json_path(fs.path)
                      \o Chars("}'")
        extraction_expr ==
            CASE json_type = "String"  -> <<"(">> \o extracted \o <<")">>
              [] json_type = "Number"  -> Chars("((") \o extracted \o Chars(")::NUMERIC)")
              [] json_type = "Boolean" -> Chars("((") \o extracted \o Chars(")::BOOLEAN)")
        pg_type ==
            CASE json_type = "String"  -> Chars("TEXT")
              [] json_type = "Number"  -> Chars("NUMERIC")
              [] json_type = "Boolean" -> Chars("BOOLEAN")
        percent    == FormatOneDecimal(Percent(fs.density))
        sql        == Chars("-- B-tree index on extracted ") \o pg_type
                      \o Chars(" value: ") \o percent \o Chars("% density") \o NewLine
                      \o Chars("CREATE INDEX ") \o index_name \o Chars(" ON ") \o table
                      \o Chars(" (") \o extraction_expr \o Chars(") WHERE ")
                      \o extraction_expr \o Chars(" IS NOT NULL;")
        reason     == Chars("Medium density ") \o DisplayJsonType(json_type)
                      \o Chars(" field (") \o percent \o Chars("%) - ")
                      \o Decimal(fs.occurrences) \o <<"/">> \o Decimal(fs.total_samples)
                      \o Chars(" samples. B-tree index on extracted value range query and sorting.")
    IN  IndexRecommendation(fs.path, "BTreeExtracted", priority, reason, sql,
            Chars("Improved query performance for lookups and range queries on scalar values."))

(***************************************************************************)
(* recommend_index (index.rs).  field_stats is the slice it is given,      *)
(* type_orders[path] the iteration order of that field's types map.        *)
(***************************************************************************)
priority_order(p) == CASE p = "High" -> 0 [] p = "Medium" -> 1 [] p = "Low" -> 2

\* recommendations.sort_by(priority): a stable sort, by insertion
RECURSIVE SortRecommendations(_, _)
SortRecommendations(seq, done) ==
    IF seq = <<>> THEN done
    ELSE LET x     == Head(seq)
             after == {i \in 1..Len(done) :
                          priority_order(done[i].priority) > priority_order(x.priority)}
             at    == IF after = {} THEN Len(done) + 1 ELSE Min(after)
         IN  SortRecommendations(Tail(seq),
                 SubSeq(done, 1, at - 1) \o <<x>> \o SubSeq(done, at, Len(done)))

\* A first-pass filter that wants a density above the threshold.
IsHighDensityStrict(fs, config, dominant) ==
    /\ fs.occurrences >= config.min_occurences
    /\ RLt(config.high_density_threshold, fs.density)
    /\ dominant \notin {Some("Object"), Some("Array")}

\* The filter of recommend_index's first pass.
IsHighDensity(fs, config, dominant) ==
    /\ fs.occurrences >= config.min_occurences
    /\ RLe(config.high_density_threshold, fs.density)
    /\ dominant \notin {Some("Object"), Some("Array")}

\* iter().max_by(density): of the fields of largest density the last one
PrimaryField(fields) ==
    fields[Max({i \in 1..Len(fields) :
                   \A j \in 1..Len(fields) : RLe(fields[j].density, fields[i].density)})]

\* A second loop whose sparse band leaves out the medium threshold itself.
OtherRecommendationOpenSparse(table, column, fs, config, dominant_type) ==
    IF fs.occurrences < config.min_occurences THEN <<>>
    ELSE IF dominant_type \in {Some("Object"), Some("Array")} THEN <<>>
    ELSE IF RLe(config.high_density_threshold, fs.density) THEN <<>>
    ELSE IF RLt(RZero, fs.density) /\ RLt(fs.density, config.medium_density_threshold)
         THEN <<create_partial_gin_recommendation(table, column, fs, "Medium")>>
    ELSE IF /\ RLt(config.medium_density_threshold, fs.density)
            /\ RLt(fs.density, config.high_density_threshold)
            /\ is_scalar_type(dominant_type)
         THEN <<create_btree_extracted_recommendation(table, column, fs,
                                                      dominant_type.value, "Medium")>>
    ELSE <<>>

\* One turn of the second loop: the recommendation pushed for a field, if any.
OtherRecommendation(table, column, fs, config, dominant_type) ==
    IF fs.occurrences < config.min_occurences THEN <<>>
    ELSE IF dominant_type \in {Some("Object"), Some("Array")} THEN <<>>
    ELSE IF RLe(config.high_density_threshold, fs.density) THEN <<>>
    ELSE IF RLt(RZero, fs.density) /\ RLe(fs.density, config.medium_density_threshold)
         THEN <<create_partial_gin_recommendation(table, column, fs, "Medium")>>
    ELSE IF /\ RLt(config.medium_density_threshold, fs.density)
            /\ RLt(fs.density, config.high_density_threshold)
            /\ is_scalar_type(dominant_type)
         THEN <<create_btree_extracted_recommendation(table, column, fs,
                                                      dominant_type.value, "Medium")>>
    ELSE <<>>

recommend_index(table, column, field_stats, config, type_orders) ==
    LET Dominant(fs)        == get_dominant_type(fs, type_orders[fs.path])
        high_density_fields ==
            SelectSeq(field_stats, LAMBDA fs : IsHighDensity(fs, config, Dominant(fs)))
        consolidated ==
            IF high_density_fields # <<>>
            THEN <<create_consolidated_gin_recommendation(
                       table, column, PrimaryField(high_density_fields),
                       high_density_fields, "Medium")>>
            ELSE <<>>
        others == Concat([i \in 1..Len(field_stats) |->
                             OtherRecommendation(table, column, field_stats[i], config,
                                                 Dominant(field_stats[i]))], 1)
    IN  SortRecommendations(consolidated \o others, <<>>)

(***************************************************************************)
(* The statistics, configurations and names recommend_index is run on.     *)
(***************************************************************************)
MaxIndexFields == 2

IndexProfiles ==
    { << <<"String", 20>> >>,
      << <<"Number", 16>> >>,
      << <<"Object", 4>> >>,
      << <<"Object", 10>>, <<"String", 10>> >>,
      << <<"Array", 17>>, <<"Boolean", 2>> >>,
      << <<"String", 5>>, <<"Boolean", 5>> >>,
      << <<"String", 4>> >>,
      << <<"Null", 12>> >> }

IndexConfigs ==
    { DefaultIndexConfig,
      IndexConfig(Rat(8, 10),  Rat(2, 10), 1),
      IndexConfig(Rat(95, 100), Rat(5, 10), 10),
      IndexConfig(Rat(5, 10),  Rat(5, 10), 0),
      IndexConfig(Rat(2, 10),  Rat(8, 10), 5) }

IndexTargets ==
    { <<Chars("users"), Chars("metadata")>>,
      <<Chars("public.customer_profile_events_archive_2024_partitioned"),
        Chars("data")>> }

IndexKeySets ==
    {K \in SUBSET {Chars("name"), Chars("addr_v1"), Chars("addr.v1")} :
        Cardinality(K) <= MaxIndexFields}

\* For each field, the orders in which its types map may be iterated.
TypeOrders(st) ==
    {f \in [DOMAIN st -> UNION {Orders(DOMAIN st[p].types) : p \in DOMAIN st}] :
        \A p \in DOMAIN st : f[p] \in Orders(DOMAIN st[p].types)}

(***************************************************************************)
(* recommend_index as an action on a finalized statistics map.             *)
(***************************************************************************)
RecommendIndex ==
    /\ finalized
    /\ index_config # None
    /\ ~index_done
    /\ index_done' = TRUE
    /\ \E target \in IndexTargets :
          \E order \in Orders(DOMAIN stats) :
              \E type_orders \in TypeOrders(stats) :
                  /\ index_call' = [ table       |-> target[1],
                                     column      |-> target[2],
                                     order       |-> order,
                                     type_orders |-> type_orders ]
                  /\ recommendations' =
                         recommend_index(target[1], target[2],
                                         [i \in 1..Len(order) |-> stats[order[i]]],
                                         index_config, type_orders)
    /\ UNCHANGED <<index_config, analyzerVars, samplerVars, driftVars, commandVars>>

IndexInit ==
    /\ \E K \in IndexKeySets : corpus \in [K -> IndexProfiles]
    /\ stats = AnalyzeAll(NewAnalyzer, Corpus(corpus))
    /\ total_samples = DriftSamples
    /\ finalized = TRUE
    /\ analyzed = <<>>
    /\ index_config \in IndexConfigs
    /\ index_call = None
    /\ index_done = FALSE
    /\ recommendations = <<>>
    /\ drift_config = None
    /\ drift_done = FALSE
    /\ issues = <<>>
    /\ NoSampler
    /\ NoCommand

IndexNext == RecommendIndex

SpecIndex == IndexInit /\ [][IndexNext]_vars


(***************************************************************************)
(* The analyze, index and scan-all commands (commands/analyze.rs,          *)
(* commands/index.rs, commands/scan_all.rs).  The database a command runs  *)
(* against is given by its answers: whether the connection succeeds, the   *)
(* answer to each selection query, and the rows (or the failure) the       *)
(* sampling query streams back.                                            *)
(***************************************************************************)
MaxColumns == 3

\* The rows a query streams back; a query that fails is QueryFailed.
RowsAre(rows) == [outcome |-> "rows", rows |-> rows]

\* table.split_once('.'), with "public" as the schema of a bare name
parse_table_name(table) ==
    IF Occurrences(table, <<".">>) = {} THEN <<Chars("public"), table>>
    ELSE LET i == Min(Occurrences(table, <<".">>))
         IN  <<SubSeq(table, 1, i - 1), SubSeq(table, i + 1, Len(table))>>

\* Sampler::new(pool, schema, table, None, sample_size) followed by
\* sampler.sample(..), each with its .context(..)?
collect_samples(sample_size, answers) ==
    LET selected == auto_select(NoEstimate, sample_size, answers.count, answers.pk)
    IN  IF ~selected.ok THEN Err("Failed to create sampler")
        ELSE IF answers.rows.outcome = "failed" THEN Err("Failed to sample data")
        ELSE Ok(answers.rows.rows)

\* field_stats.sort_by(|a, b| a.path.cmp(&b.path)): the paths in ascending order
SortedPaths(st) ==
    CHOOSE order \in Orders(DOMAIN st) :
        \A i \in 1..(Len(order) - 1) : StrCmp(order[i], order[i + 1]) = "Less"

\* analyze_column of scan_all.rs
analyze_column(sample_size, answers, config, order, family_order) ==
    LET samples == collect_samples(sample_size, answers)
    IN  IF ~samples.ok THEN samples
        ELSE IF samples.value = <<>> THEN Err("No samples found in the column")
        ELSE LET st == AnalyzeAll(NewAnalyzer, samples.value)
             IN  Ok([ samples_analyzed |-> Len(samples.value),
                      drift_issues     |-> detect_drift(st, config, order, family_order) ])

\* The statistics a command computes from the rows, empty when it gets none.
StatsOfRows(sample_size, answers) ==
    LET samples == collect_samples(sample_size, answers)
    IN  IF samples.ok THEN AnalyzeAll(NewAnalyzer, samples.value) ELSE <<>>

ColumnScanResult(col, samples_analyzed, drift_issues) ==
    [ schema |-> col.schema, table |-> col.table, column |-> col.column,
      samples_analyzed |-> samples_analyzed, drift_issues |-> drift_issues ]

(***************************************************************************)
(* The command lines and databases the commands are run with.              *)
(***************************************************************************)
ColumnAnswers ==
    LET first  == JObj(<< <<Chars("age"), JNum(30)>>, <<Chars("name"), JStr("Alice")>> >>)
        second == JObj(<< <<Chars("age"), JStr("30")>> >>)
    IN  { [count |-> QueryFailed, pk |-> NoPrimaryKey, rows |-> QueryFailed],
          [count |-> CountIs(2),  pk |-> NoPrimaryKey, rows |-> QueryFailed],
          [count |-> CountIs(0),  pk |-> NoPrimaryKey, rows |-> RowsAre(<<>>)],
          [count |-> CountIs(2),  pk |-> NoPrimaryKey, rows |-> RowsAre(<<first>>)],
          [count |-> CountIs(2),  pk |-> NoPrimaryKey, rows |-> RowsAre(<<first, second>>)] }

\* The JsonbColumn rows discovery returns, ordered by schema, table and column.
DiscoveredColumns(answers) ==
    [i \in 1..Len(answers) |->
        [ schema  |-> Chars("public"),
          table   |-> <<"t", DigitChars[i + 1]>>,
          column  |-> Chars("data"),
          answers |-> answers[i] ]]

Commands ==
    [ name : {"analyze", "index"}, connect : BOOLEAN,
      table : {Chars("users"), Chars("app.users")}, column : {Chars("metadata")},
      sample_size : {1000}, answers : ColumnAnswers ]
    \cup
    [ name : {"scan_all"}, connect : BOOLEAN, sample_size : {1000},
      discovered : {QueryFailed} \cup
          {RowsAre(DiscoveredColumns(a)) :
              a \in UNION {[1..n -> ColumnAnswers] : n \in 0..MaxColumns}} ]

(***************************************************************************)
(* The commands as actions.  analyze and index run from start to end in    *)
(* one step; scan-all takes one step to connect and discover, one per      *)
(* column, and one to print the summary.                                   *)
(***************************************************************************)
\* An analyze command that reports on an empty sample instead of failing.
AnalyzeCommandReportsEmpty ==
    /\ cmd # None
    /\ cmd.name = "analyze"
    /\ cmd_result = None
    /\ LET parsed  == parse_table_name(cmd.table)
           samples == collect_samples(cmd.sample_size, cmd.answers)
       IN  IF ~cmd.connect
           THEN cmd_result' = Err("Failed to connect to the database")
                /\ cmd_output' = cmd_output
           ELSE IF ~samples.ok
           THEN cmd_result' = samples /\ cmd_output' = cmd_output
           ELSE /\ cmd_result' = Ok("done")
                /\ cmd_output' = [ kind             |-> "analysis",
                                   table            |-> parsed[2],
                                   column           |-> cmd.column,
                                   samples_analyzed |-> Len(samples.value),
                                   field_stats      |-> <<>>,
                                   drift_issues     |-> <<>> ]
    /\ UNCHANGED <<cmd, cmd_pos, column_results, analyzerVars, samplerVars, driftVars,
                   indexVars>>

\* commands/analyze.rs run
AnalyzeCommand ==
    /\ cmd # None
    /\ cmd.name = "analyze"
    /\ cmd_result = None
    /\ LET parsed  == parse_table_name(cmd.table)
           samples == collect_samples(cmd.sample_size, cmd.answers)
           st      == StatsOfRows(cmd.sample_size, cmd.answers)
       IN  IF ~cmd.connect
           THEN cmd_result' = Err("Failed to connect to the database")
                /\ cmd_output' = cmd_output
           ELSE IF ~samples.ok
           THEN cmd_result' = samples /\ cmd_output' = cmd_output
           ELSE IF samples.value = <<>>
           THEN cmd_result' = Err("No samples found. Column may be empty or NUILL.")
                /\ cmd_output' = cmd_output
           ELSE /\ cmd_result' = Ok("done")
                /\ \E order \in Orders(DOMAIN st) :
                      \E family_order \in Orders(DOMAIN PathFamilies(order)) :
                          cmd_output' =
                              [ kind             |-> "analysis",
                                table            |-> parsed[2],
                                column           |-> cmd.column,
                                samples_analyzed |-> Len(samples.value),
                                field_stats      |-> [i \in 1..Len(SortedPaths(st)) |->
                                                         st[SortedPaths(st)[i]]],
                                drift_issues     |-> detect_drift(st, DefaultDriftConfig,
                                                                  order, family_order) ]
    /\ UNCHANGED <<cmd, cmd_pos, column_results, analyzerVars, samplerVars, driftVars,
                   indexVars>>

\* commands/index.rs run
IndexCommand ==
    /\ cmd # None
    /\ cmd.name = "index"
    /\ cmd_result = None
    /\ LET parsed  == parse_table_name(cmd.table)
           samples == collect_samples(cmd.sample_size, cmd.answers)
           st      == StatsOfRows(cmd.sample_size, cmd.answers)
       IN  IF ~cmd.connect
           THEN cmd_result' = Err("Failed to connect to the database")
                /\ cmd_output' = cmd_output
           ELSE IF ~samples.ok
           THEN cmd_result' = samples /\ cmd_output' = cmd_output
           ELSE IF samples.value = <<>>
           THEN cmd_result' = Err("No samples found. Column may be empty or NULL.")
                /\ cmd_output' = cmd_output
           ELSE /\ cmd_result' = Ok("done")
                /\ \E type_orders \in TypeOrders(st) :
                      cmd_output' =
                          [ kind            |-> "index",
                            table           |-> parsed[2],
                            column          |-> cmd.column,
                            recommendations |->
                                recommend_index(parsed[2], cmd.column,
                                                [i \in 1..Len(SortedPaths(st)) |->
                                                    st[SortedPaths(st)[i]]],
                                                DefaultIndexConfig, type_orders) ]
    /\ UNCHANGED <<cmd, cmd_pos, column_results, analyzerVars, samplerVars, driftVars,
                   indexVars>>

\* commands/scan_all.rs run, up to the loop
ScanAllStart ==
    /\ cmd # None
    /\ cmd.name = "scan_all"
    /\ cmd_result = None
    /\ cmd_pos = 0
    /\ IF ~cmd.connect
       THEN /\ cmd_result' = Err("Failed to connect to the database")
            /\ UNCHANGED <<cmd_pos, cmd_output>>
       ELSE IF cmd.discovered.outcome = "failed"
       THEN /\ cmd_result' = Err("Failed to discover JSONB columns")
            /\ UNCHANGED <<cmd_pos, cmd_output>>
       ELSE IF cmd.discovered.rows = <<>>
       THEN /\ cmd_result' = Ok("done")
            /\ cmd_output' = [kind |-> "No JSONB columns found in the database."]
            /\ UNCHANGED cmd_pos
       ELSE /\ cmd_pos' = 1
            /\ UNCHANGED <<cmd_result, cmd_output>>
    /\ UNCHANGED <<cmd, column_results, analyzerVars, samplerVars, driftVars, indexVars>>

\* A loop turn that returns a column's error from run instead of recording it.
ScanAllColumnPropagates ==
    /\ cmd # None
    /\ cmd.name = "scan_all"
    /\ cmd_result = None
    /\ cmd_pos >= 1
    /\ cmd_pos <= Len(cmd.discovered.rows)
    /\ LET col == cmd.discovered.rows[cmd_pos]
           st  == StatsOfRows(cmd.sample_size, col.answers)
       IN  \E order \in Orders(DOMAIN st) :
               \E family_order \in Orders(DOMAIN PathFamilies(order)) :
                   LET analysis == analyze_column(cmd.sample_size, col.answers,
                                                  DefaultDriftConfig, order, family_order)
                   IN  IF analysis.ok
                       THEN /\ column_results' = Append(column_results,
                                   ColumnScanResult(col, analysis.value.samples_analyzed,
                                                    analysis.value.drift_issues))
                            /\ cmd_pos' = cmd_pos + 1
                            /\ UNCHANGED cmd_result
                       ELSE /\ cmd_result' = analysis
                            /\ UNCHANGED <<column_results, cmd_pos>>
    /\ UNCHANGED <<cmd, cmd_output, analyzerVars, samplerVars, driftVars, indexVars>>

\* One turn of the loop over the columns.
ScanAllColumn ==
    /\ cmd # None
    /\ cmd.name = "scan_all"
    /\ cmd_result = None
    /\ cmd_pos >= 1
    /\ cmd_pos <= Len(cmd.discovered.rows)
    /\ LET col == cmd.discovered.rows[cmd_pos]
           st  == StatsOfRows(cmd.sample_size, col.answers)
       IN  \E order \in Orders(DOMAIN st) :
               \E family_order \in Orders(DOMAIN PathFamilies(order)) :
                   LET analysis == analyze_column(cmd.sample_size, col.answers,
                                                  DefaultDriftConfig, order, family_order)
                   IN  column_results' = Append(column_results,
                           IF analysis.ok
                           THEN ColumnScanResult(col, analysis.value.samples_analyzed,
                                                 analysis.value.drift_issues)
                           ELSE ColumnScanResult(col, 0, <<>>))
    /\ cmd_pos' = cmd_pos + 1
    /\ UNCHANGED <<cmd, cmd_output, cmd_result, analyzerVars, samplerVars, driftVars,
                   indexVars>>

\* After the loop: the summary is printed and run returns Ok(()).
ScanAllFinish ==
    /\ cmd # None
    /\ cmd.name = "scan_all"
    /\ cmd_result = None
    /\ cmd_pos >= 1
    /\ cmd_pos = Len(cmd.discovered.rows) + 1
    /\ cmd_output' = [ kind           |-> "scan_all",
                       total_columns  |-> Len(cmd.discovered.rows),
                       column_results |-> column_results ]
    /\ cmd_result' = Ok("done")
    /\ UNCHANGED <<cmd, cmd_pos, column_results, analyzerVars, samplerVars, driftVars,
                   indexVars>>

CommandInit ==
    /\ cmd \in Commands
    /\ cmd_pos = 0
    /\ column_results = <<>>
    /\ cmd_output = None
    /\ cmd_result = None
    /\ AnalyzerNew
    /\ NoSampler
    /\ NoDrift
    /\ NoIndex

CommandNext ==
    \/ AnalyzeCommand
    \/ IndexCommand
    \/ ScanAllStart
    \/ ScanAllColumn
    \/ ScanAllFinish

SpecCommands == CommandInit /\ [][CommandNext]_vars

(***************************************************************************)
(* Claims about the analyzer, checked under SpecAnalyzer.                  *)
(***************************************************************************)
NullBucket(fs) == IF "Null" \in DOMAIN fs.types THEN fs.types["Null"] ELSE 0

\* C1: at every moment, before or after finalize, every FieldStats in the
\* map has a types histogram whose values sum to occurrences, and a
\* null_count equal to the Null bucket, hence at most occurrences.
C1_HistogramMatchesOccurrences ==
    \A p \in DOMAIN stats :
        /\ SumTypes(stats[p].types) = stats[p].occurrences
        /\ stats[p].null_count = NullBucket(stats[p])
        /\ stats[p].null_count <= stats[p].occurrences

\* A finalized field seen as null and as something else.
C1_Witness ==
    /\ finalized
    /\ \E p \in DOMAIN stats :
        /\ stats[p].null_count >= 1
        /\ Cardinality(DOMAIN stats[p].types) >= 2
        /\ stats[p].occurrences >= 2

\* C2: after finalize, the density of every path lies in [0, 1], whatever
\* the shape of the analyzed documents.
C2_DensityInUnitInterval ==
    finalized =>
        \A p \in DOMAIN stats :
            /\ RLe(RZero, stats[p].density)
            /\ RLe(stats[p].density, ROne)

\* C3: after finalize, every FieldStats carries total_samples equal to the
\* number of analyze calls (documents contributing no field included), its
\* density is occurrences / total_samples, and density is 0 with no samples.
C3_TotalSamplesAndDensity ==
    finalized =>
        \A p \in DOMAIN stats :
            /\ stats[p].total_samples = Len(analyzed)
            /\ Len(analyzed) > 0 =>
                   REq(stats[p].density, Rat(stats[p].occurrences, Len(analyzed)))
            /\ Len(analyzed) = 0 => REq(stats[p].density, RZero)

\* A finalized run in which a document without fields was analyzed next to
\* documents with fields.
C3_Witness ==
    /\ finalized
    /\ DOMAIN stats # {}
    /\ \E i \in 1..Len(analyzed) : analyzed[i] \in {JObj(<<>>), JNum(7)}
    /\ \E p \in DOMAIN stats : stats[p].occurrences < Len(analyzed)

(***************************************************************************)
(* Claims about the sampler, checked under SpecSampler.                    *)
(***************************************************************************)
EstimateUsable == call.estimated_rows.some /\ call.estimated_rows.rows > 0

\* The row count of the decision table, when there is one.
RowCountKnown == EstimateUsable \/ db.count.outcome = "rows"
TableRowCount == IF EstimateUsable THEN call.estimated_rows.rows ELSE db.count.count

\* The strategy kind the decision table prescribes.
TableKind(rc, n, pk_answer) ==
    IF n >= rc THEN "Full"
    ELSE IF rc < SmallTableRows THEN "Random"
    ELSE IF rc < MediumTableRows
         THEN (IF pk_answer.outcome = "rows" THEN "ReservoirPK" ELSE "Random")
    ELSE "TableSample"

\* C4: with rc the estimate when present and positive, else the fetched
\* count, auto_select returns Full if sample_size >= rc; else Random{limit =
\* sample_size} if rc < 100,000; else, if rc < 10,000,000, ReservoirPK
\* {sample_size, pk} when a primary key is found and Random{limit =
\* sample_size} when the table has none (not an error); else TableSample
\* {limit = sample_size}.
C4_DecisionTable ==
    (/\ select_result # None
     /\ RowCountKnown
     /\ "pk" \in ran => db.pk.outcome # "failed")
    =>
    LET n    == call.sample_size
        kind == TableKind(TableRowCount, n, db.pk)
    IN  /\ select_result.ok
        /\ select_result.value.kind = kind
        /\ kind = "Random" => select_result.value = Random(n)
        /\ kind = "ReservoirPK" => select_result.value = ReservoirPK(n, db.pk.attname)
        /\ kind = "TableSample" => select_result.value.limit = n
        /\ kind = "Full" => select_result.value = Full

\* A medium table, counted by the database, without a primary key.
C4_Witness ==
    /\ select_result # None
    /\ ran = {"count", "pk"}
    /\ db.count.outcome = "rows"
    /\ db.pk.outcome = "no row"
    /\ select_result.ok
    /\ select_result.value = Random(call.sample_size)

\* C5: auto_select returns an error whenever the row-count query or the
\* primary-key query it issued fails; it falls back to Random in the medium
\* range only when the primary-key query succeeded and found no key.
C5_SelectionFailuresPropagate ==
    select_result # None =>
        /\ ("count" \in ran /\ db.count.outcome = "failed") => ~select_result.ok
        /\ ("pk" \in ran /\ db.pk.outcome = "failed") => ~select_result.ok
        /\ ("pk" \in ran /\ select_result.ok /\ select_result.value.kind = "Random")
               => db.pk.outcome = "no row"

RECURSIVE ParseDigits(_)
ParseDigits(s) ==
    IF s = <<>> THEN 0
    ELSE ParseDigits(SubSeq(s, 1, Len(s) - 1)) * 10 + IndexIn(DigitChars, s[Len(s)]) - 1

RECURSIVE PowerOfTen(_)
PowerOfTen(k) == IF k = 0 THEN 1 ELSE 10 * PowerOfTen(k - 1)

\* The number a decimal literal of the query text denotes.
ParseFloat(s) ==
    IF Occurrences(s, <<".">>) = {} THEN Rat(ParseDigits(s), 1)
    ELSE LET i    == Min(Occurrences(s, <<".">>))
             frac == SubSeq(s, i + 1, Len(s))
         IN  Rat(ParseDigits(SubSeq(s, 1, i - 1) \o frac), PowerOfTen(Len(frac)))

\* The argument of TABLESAMPLE BERNOULLI(...) in a query text.
BernoulliArgument(text) ==
    LET open == Min(Occurrences(text, Chars("BERNOULLI("))) + 10
        rest == SubSeq(text, open, Len(text))
    IN  SubSeq(rest, 1, Min(Occurrences(rest, <<")">>)) - 1)

\* C6: in production mode, a TableSample strategy above 1% makes sample()
\* warn, and no TableSample query it executes samples at more than 1%.
C6_ProductionCapsTableSample ==
    (pc = "sampled" /\ production_mode /\ strategy.kind = "TableSample") =>
        /\ RLt(ProductionCap, strategy.percentage) => warned
        /\ RLe(ParseFloat(BernoulliArgument(executed)), ProductionCap)

(***************************************************************************)
(* Claims about the drift classifier, checked under SpecDrift.             *)
(***************************************************************************)
IssuesAt(kind, p) == {i \in 1..Len(issues) : issues[i].kind = kind /\ issues[i].path = p}

\* (sum of all type counts - the single largest bucket) / sum x 100
MinorityPercentageOf(fs) ==
    Rat((SumTypes(fs.types) - MaxCount(fs.types)) * 100, SumTypes(fs.types))

\* C7: the type-inconsistency heuristic fires for a field if and only if
\* the field has at least 2 distinct types and (sum of all type counts -
\* the single largest bucket) / sum x 100 >= type_inconsistency_threshold,
\* fields whose two largest buckets are equal included.
C7_TypeInconsistencyIff ==
    drift_done =>
        \A p \in DOMAIN stats :
            (IssuesAt("TypeInconsistency", p) # {})
            <=> (/\ Cardinality(DOMAIN stats[p].types) >= 2
                 /\ RLe(drift_config.type_inconsistency_threshold,
                        MinorityPercentageOf(stats[p])))

BandKinds == {"GhostKey", "SparseField", "MissingKey"}
BandsFired(p) == {k \in BandKinds : IssuesAt(k, p) # {}}

OrderedThresholds(cfg) ==
    /\ RLe(RZero, cfg.ghost_key_threshold)
    /\ RLe(cfg.ghost_key_threshold, cfg.sparse_field_threshold)
    /\ RLe(cfg.sparse_field_threshold, cfg.missing_key_threshold)

InGhostBand(d, cfg)   == RLt(RZero, d) /\ RLe(d, cfg.ghost_key_threshold)
InSparseBand(d, cfg)  == RLt(cfg.ghost_key_threshold, d) /\ RLe(d, cfg.sparse_field_threshold)
InMissingBand(d, cfg) == RLt(cfg.sparse_field_threshold, d) /\ RLt(d, cfg.missing_key_threshold)

\* C8 as stated: with 0 <= ghost <= sparse <= missing, a field of density d
\* gets exactly GhostKey for d in (0, ghost], exactly SparseField for d in
\* (ghost, sparse], exactly MissingKey for d in (sparse, missing), and none
\* of the three for d = 0 or d >= missing.
C8_BandsAsStated ==
    (drift_done /\ OrderedThresholds(drift_config)) =>
        \A p \in DOMAIN stats :
            LET d == stats[p].density
            IN  /\ InGhostBand(d, drift_config)   => BandsFired(p) = {"GhostKey"}
                /\ InSparseBand(d, drift_config)  => BandsFired(p) = {"SparseField"}
                /\ InMissingBand(d, drift_config) => BandsFired(p) = {"MissingKey"}
                /\ (REq(d, RZero) \/ RLe(drift_config.missing_key_threshold, d))
                       => BandsFired(p) = {}

\* C8 (amended): as above, but none of the three fires for d = 0 or for
\* d >= missing only when d also exceeds sparse_field_threshold; at
\* d = missing = sparse (or = ghost) the closed lower band still fires.
C8_BandsPartition ==
    (drift_done /\ OrderedThresholds(drift_config)) =>
        \A p \in DOMAIN stats :
            LET d == stats[p].density
            IN  /\ InGhostBand(d, drift_config)   => BandsFired(p) = {"GhostKey"}
                /\ InSparseBand(d, drift_config)  => BandsFired(p) = {"SparseField"}
                /\ InMissingBand(d, drift_config) => BandsFired(p) = {"MissingKey"}
                /\ (REq(d, RZero)
                    \/ (/\ RLe(drift_config.missing_key_threshold, d)
                        /\ RLt(drift_config.sparse_field_threshold, d)))
                       => BandsFired(p) = {}
                /\ \A k \in BandKinds : Cardinality(IssuesAt(k, p)) <= 1

\* Ordered thresholds with sparse = missing, one field exactly at that
\* density reported sparse and another field in the ghost band.
C8_Witness ==
    /\ drift_done
    /\ OrderedThresholds(drift_config)
    /\ REq(drift_config.sparse_field_threshold, drift_config.missing_key_threshold)
    /\ \E p, q \in DOMAIN stats :
          /\ REq(stats[p].density, drift_config.sparse_field_threshold)
          /\ BandsFired(p) = {"SparseField"}
          /\ BandsFired(q) = {"GhostKey"}

\* C9: in the list detect_drift returns, each issue is followed by one of
\* strictly lower severity, or of equal severity and a path that is not
\* smaller in byte order.
C9_IssuesSorted ==
    drift_done =>
        \A i \in 1..(Len(issues) - 1) :
            LET a == SeverityRank(severity(issues[i]))
                b == SeverityRank(severity(issues[i + 1]))
            IN  \/ a > b
                \/ a = b /\ StrCmp(issues[i].path, issues[i + 1].path) \in {"Less", "Equal"}

\* A returned list with all three severities and two issues of equal
\* severity on different paths.
C9_Witness ==
    /\ drift_done
    /\ {severity(issues[i]) : i \in 1..Len(issues)} = {"Critical", "Warning", "Info"}
    /\ \E i \in 1..(Len(issues) - 1) :
          /\ severity(issues[i]) = severity(issues[i + 1])
          /\ issues[i].path # issues[i + 1].path

(***************************************************************************)
(* Claims about the index recommender, checked under SpecIndex.            *)
(***************************************************************************)
\* The types of a field with the largest count.
LargestTypes(p) ==
    {t \in DOMAIN stats[p].types :
        \A u \in DOMAIN stats[p].types : stats[p].types[u] <= stats[p].types[t]}

\* The dominant type of a field during the call: the type of largest count,
\* and of several such the one the field's types map yields last.
DominantDuringCall(p) ==
    LET order == index_call.type_orders[p]
    IN  order[Max({i \in 1..Len(order) : order[i] \in LargestTypes(p)})]

\* The fields that qualify for the consolidated index.
Qualifying ==
    {p \in DOMAIN stats :
        /\ stats[p].occurrences >= index_config.min_occurences
        /\ DominantDuringCall(p) \notin {"Object", "Array"}
        /\ stats[p].density.num * index_config.high_density_threshold.den
               >= index_config.high_density_threshold.num * stats[p].density.den}

GinPositions ==
    {i \in 1..Len(recommendations) : recommendations[i].index_type = "Gin"}

\* The text lists the path as an entry of its own: after a blank, before " (".
NamesField(text, p) ==
    \E i \in Occurrences(text, p \o <<" ", "(">>) : i > 1 /\ text[i - 1] = " "

\* C10: once recommend_index has returned, its result holds exactly one Gin
\* recommendation if some field qualifies (occurrences >= min_occurences,
\* dominant type neither Object nor Array, density >= high_density_threshold)
\* and no Gin recommendation if none does; the Gin recommendation's field_path
\* is a qualifying field whose density no qualifying field exceeds, and its
\* sql text lists every qualifying field.
C10_SingleConsolidatedGin ==
    index_done =>
        IF Qualifying = {} THEN GinPositions = {}
        ELSE /\ Cardinality(GinPositions) = 1
             /\ \A i \in GinPositions :
                    /\ recommendations[i].field_path \in Qualifying
                    /\ \A q \in Qualifying :
                           RLe(stats[q].density,
                               stats[recommendations[i].field_path].density)
                    /\ \A q \in Qualifying : NamesField(recommendations[i].sql, q)

\* Two fields of different densities qualify, the denser one is handed over
\* first, and the result is the one Gin recommendation.
C10_Witness ==
    /\ index_done
    /\ Cardinality(Qualifying) = 2
    /\ Len(recommendations) = 1
    /\ recommendations[1].index_type = "Gin"
    /\ recommendations[1].field_path = index_call.order[1]
    /\ RLt(stats[index_call.order[2]].density, stats[index_call.order[1]].density)

Eligible(p) ==
    /\ stats[p].occurrences >= index_config.min_occurences
    /\ DominantDuringCall(p) \notin {"Object", "Array"}

BelowHigh(p) == RLt(stats[p].density, index_config.high_density_threshold)

InSparseRange(p) ==
    /\ RLt(RZero, stats[p].density)
    /\ RLe(stats[p].density, index_config.medium_density_threshold)

InMediumRange(p) ==
    /\ RLt(index_config.medium_density_threshold, stats[p].density)
    /\ RLt(stats[p].density, index_config.high_density_threshold)

RecsFor(p, index_type) ==
    {i \in 1..Len(recommendations) :
        /\ recommendations[i].field_path = p
        /\ recommendations[i].index_type = index_type}

EndsWith(text, suffix) ==
    Len(text) >= Len(suffix)
    /\ SubSeq(text, Len(text) - Len(suffix) + 1, Len(text)) = suffix

\* The DDL indexes an expression E that extracts the path (its keys
\* separated by commas, as #>> takes them) as text, casts it
\* as the type asks, and is guarded by "E IS NOT NULL": the statement ends in
\* " (E) WHERE E IS NOT NULL;".
ExtractsGuarded(sql, p, json_type) ==
    LET guard  == Chars(" IS NOT NULL;")
        where  == Chars(") WHERE ")
        starts == Occurrences(sql, where)
    IN  /\ EndsWith(sql, guard)
        /\ starts # {}
        /\ LET w == Min(starts)
               E == SubSeq(sql, w + Len(where), Len(sql) - Len(guard))
           IN  /\ w - Len(E) - 2 >= 1
               /\ SubSeq(sql, w - Len(E) - 2, w - 1) = Chars(" (") \o E
               /\ Occurrences(E, Chars("#>> '{") \o ReplaceAll(p, <<".">>, <<",">>)
                                     \o Chars("}'")) # {}
               /\ CASE json_type = "String"  -> Occurrences(E, Chars("::")) = {}
                    [] json_type = "Number"  -> EndsWith(E, Chars(")::NUMERIC)"))
                    [] json_type = "Boolean" -> EndsWith(E, Chars(")::BOOLEAN)"))
                    [] OTHER -> FALSE

Discovered ==
    /\ cmd.name = "scan_all"
    /\ cmd.connect
    /\ cmd.discovered.outcome = "rows"

\* The analysis of a column fails: the row count needed to create the sampler
\* fails, the sampling query fails, or it yields no row.
ColumnFails(answers) ==
    \/ answers.count.outcome = "failed"
    \/ answers.rows.outcome = "failed"
    \/ answers.rows.rows = <<>>

\* C12: in a scan-all run that discovered its columns, whatever columns fail,
\* the results recorded so far are those of the columns before the loop
\* position, one per column and in discovery order, a failed column with
\* samples_analyzed = 0 and no issues and any other with its number of rows;
\* the run returns only after the last column, and then returns Ok with the
\* complete list in its summary.
C12_ScanAllRecordsEveryColumn ==
    Discovered =>
        LET columns == cmd.discovered.rows
        IN  /\ Len(column_results) = (IF cmd_pos = 0 THEN 0 ELSE cmd_pos - 1)
            /\ Len(column_results) <= Len(columns)
            /\ \A i \in 1..Len(column_results) :
                   /\ column_results[i].schema = columns[i].schema
                   /\ column_results[i].table = columns[i].table
                   /\ column_results[i].column = columns[i].column
                   /\ IF ColumnFails(columns[i].answers)
                      THEN /\ column_results[i].samples_analyzed = 0
                           /\ column_results[i].drift_issues = <<>>
                      ELSE column_results[i].samples_analyzed =
                               Len(columns[i].answers.rows.rows)
            /\ cmd_result # None =>
                   /\ cmd_result.ok
                   /\ Len(column_results) = Len(columns)
                   /\ columns # <<>> =>
                          /\ cmd_output.total_columns = Len(columns)
                          /\ cmd_output.column_results = column_results

\* A finished run over three columns: the first fails to create its sampler,
\* the second yields no samples, the third is analyzed and has issues.
C12_Witness ==
    /\ Discovered
    /\ cmd_result # None
    /\ Len(column_results) = 3
    /\ cmd.discovered.rows[1].answers.count.outcome = "failed"
    /\ cmd.discovered.rows[2].answers.rows = RowsAre(<<>>)
    /\ column_results[3].samples_analyzed = 2
    /\ column_results[3].drift_issues # <<>>

\* The analyze or index command connected, created its sampler and sampled
\* without error.
SamplingSucceeded ==
    /\ cmd.name \in {"analyze", "index"}
    /\ cmd.connect
    /\ cmd.answers.count.outcome = "rows"
    /\ cmd.answers.rows.outcome = "rows"

\* C13: when the analyze or index command has returned and its sampling
\* yielded zero documents, it returned an error and printed no report; and
\* whenever it printed a report, sampling had succeeded with at least one
\* document and the command returned Ok.
C13_NoReportWithoutSamples ==
    (cmd # None /\ cmd.name \in {"analyze", "index"}) =>
        /\ (cmd_result # None /\ SamplingSucceeded /\ cmd.answers.rows.rows = <<>>)
               => (~cmd_result.ok /\ cmd_output = None)
        /\ cmd_output # None
               => /\ SamplingSucceeded
                  /\ Len(cmd.answers.rows.rows) >= 1
                  /\ cmd_result = Ok("done")

\* The index command has returned from an empty sample, with an error.
C13_Witness ==
    /\ cmd # None
    /\ cmd.name = "index"
    /\ SamplingSucceeded
    /\ cmd.answers.rows.rows = <<>>
    /\ cmd_result # None
    /\ ~cmd_result.ok
    /\ cmd_output = None

(***************************************************************************)
(* Claims about the SQL text the program generates.                        *)
(***************************************************************************)
\* The number of double quotes before position i: even outside a quoted
\* identifier, odd inside one (a doubled quote leaves the parity as it was).
QuotesBefore(text, i) == Cardinality({j \in 1..(i - 1) : text[j] = Quote})

\* The positions of the quotes that open and that close a quoted identifier.
Opens(text) ==
    {i \in 1..Len(text) : /\ text[i] = Quote
                          /\ QuotesBefore(text, i) % 2 = 0
                          /\ i = 1 \/ text[i - 1] # Quote \/ QuotesBefore(text, i) = 0}
Closes(text) ==
    {i \in 1..Len(text) : /\ text[i] = Quote
                          /\ QuotesBefore(text, i) % 2 = 1
                          /\ i = Len(text) \/ text[i + 1] # Quote}

\* The names the quoted identifiers of the text denote.
QuotedNames(text) ==
    {ReplaceAll(SubSeq(text, i + 1, Min({j \in Closes(text) : j > i}) - 1),
                <<Quote, Quote>>, <<Quote>>) :
        i \in {o \in Opens(text) : \E j \in Closes(text) : j > o}}

IsWordChar(c) == is_alphanumeric(c) \/ c = "_"

\* The name stands in the text as a word of its own, outside any quoted identifier.
OccursRaw(text, name) ==
    \E i \in Occurrences(text, name) :
        /\ text[i] # Quote
        /\ QuotesBefore(text, i) % 2 = 0
        /\ i = 1 \/ ~IsWordChar(text[i - 1])
        /\ i + Len(name) > Len(text) \/ ~IsWordChar(text[i + Len(name)])

\* The names reach the text in quoted form only: none stands raw, every one
\* is the name of a quoted identifier, and every quoted identifier names one.
OnlyQuoted(text, names) ==
    /\ \A n \in names : ~OccursRaw(text, n)
    /\ QuotesBefore(text, Len(text) + 1) % 2 = 0
    /\ QuotedNames(text) = names

\* The sampling query carries schema, table, column and primary key quoted.
SamplingQueryQuoted ==
    pc = "sampled" =>
        \E t \in Targets :
            OnlyQuoted(executed, {t[1], t[2], t[3]}
                                 \cup (IF strategy.kind = "ReservoirPK"
                                       THEN {strategy.pk} ELSE {}))

\* The row-count query carries schema and table quoted.
CountQueryQuoted ==
    "count" \in ran => OnlyQuoted(count_sql, {call.schema, call.table})

\* The DDL of every recommendation carries table and column quoted.
IndexDdlQuoted ==
    \A i \in 1..Len(recommendations) :
        OnlyQuoted(recommendations[i].sql, {index_call.table, index_call.column})

\* C14: every schema, table, column and primary-key name reaches generated
\* SQL only as a double-quoted identifier with embedded quotes doubled, never
\* raw: in the sampling query, in the row-count query, and in the DDL of
\* every index recommendation.
C14_NamesOnlyQuoted == SamplingQueryQuoted /\ CountQueryQuoted /\ IndexDdlQuoted

\* The nesting depth of parentheses at position i, outside quoted identifiers.
ParenDepth(text, i) ==
    Cardinality({j \in 1..(i - 1) : text[j] = "(" /\ QuotesBefore(text, j) % 2 = 0})
    - Cardinality({j \in 1..(i - 1) : text[j] = ")" /\ QuotesBefore(text, j) % 2 = 0})

\* The WHERE keywords of the outermost SELECT.
TopLevelWheres(text) ==
    {i \in Occurrences(text, Chars("WHERE ")) :
        QuotesBefore(text, i) % 2 = 0 /\ ParenDepth(text, i) = 0}

\* The outermost SELECT of the query has one WHERE clause, and that clause is
\* the single condition `column IS NOT NULL` on the quoted column (written
\* t.column where the table is aliased t), with no OR after it.
RestrictsToNotNull(text, column) ==
    /\ Cardinality(TopLevelWheres(text)) = 1
    /\ LET i    == Min(TopLevelWheres(text))
           rest == SubSeq(text, i + 6, Len(text))
           cond == quote_identifier(column) \o Chars(" IS NOT NULL")
           tail == IF starts_with(rest, Chars("t."))
                   THEN SubSeq(rest, 3 + Len(cond), Len(rest))
                   ELSE SubSeq(rest, 1 + Len(cond), Len(rest))
       IN  /\ starts_with(rest, cond) \/ starts_with(rest, Chars("t.") \o cond)
           /\ Occurrences(tail, Chars(" OR ")) = {}
           /\ Occurrences(tail, Chars(" UNION ")) = {}

\* C15: for each of the four strategies, the query sample() builds and sends
\* restricts its result to rows whose target column IS NOT NULL.
C15_QueriesExcludeNull ==
    [][\A t \in Targets :
          (pc = "created" /\ pc' = "sampled"
           /\ executed' = build_query(strategy, t[1], t[2], t[3]))
              => RestrictsToNotNull(executed', t[3])]_vars

\* A ReservoirPK query was sent for the column whose name holds double quotes.
C15_Witness ==
    /\ pc = "sampled"
    /\ strategy.kind = "ReservoirPK"
    /\ Occurrences(executed, Chars("WHERE t.") \o quote_identifier(<<Quote, "c", Quote>>)
                                \o Chars(" IS NOT NULL")) # {}

(***************************************************************************)
(* The TableSample percentage, checked under SpecSampler.                  *)
(***************************************************************************)
ReturnedTableSample ==
    /\ select_result # None
    /\ select_result.ok
    /\ select_result.value.kind = "TableSample"

RECURSIVE Gcd(_, _)
Gcd(a, b) == IF b = 0 THEN a ELSE Gcd(b, a % b)

\* The same rational in lowest terms.
Lowest(r) == Rat(r.num \div Gcd(r.num, r.den), r.den \div Gcd(r.num, r.den))

\* sample_size / row_count x 100
ExactPercentage == Lowest(Rat(call.sample_size * 100, TableRowCount))

\* C16: whenever auto_select returns TableSample, the row count is at least
\* 10,000,000 and above sample_size, and the percentage is
\* sample_size / row_count x 100 brought into [0.1, 100.0]: that value
\* itself when it lies in the interval, 0.1 when it is smaller, 100.0 when
\* it is larger; it is never below 0.1 and never above 100.0.
C16_TableSamplePercentageClamped ==
    ReturnedTableSample =>
        LET p == Lowest(select_result.value.percentage)
        IN  /\ TableRowCount >= 10000000
            /\ call.sample_size < TableRowCount
            /\ RLe(Rat(1, 10), p)
            /\ RLe(p, Rat(100, 1))
            /\ RLt(ExactPercentage, Rat(1, 10)) => REq(p, Rat(1, 10))
            /\ RLt(Rat(100, 1), ExactPercentage) => REq(p, Rat(100, 1))
            /\ (RLe(Rat(1, 10), ExactPercentage) /\ RLe(ExactPercentage, Rat(100, 1)))
                  => REq(p, ExactPercentage)

\* TableSample was returned for 10 of 10,000,000 rows: 0.0001% raised to 0.1%.
C16_Witness ==
    /\ ReturnedTableSample
    /\ RLt(ExactPercentage, Rat(1, 10))
    /\ REq(Lowest(select_result.value.percentage), Rat(1, 10))
    /\ call.sample_size > 0

(***************************************************************************)
(* Claims about the analyzer's traversal, checked under SpecAnalyzer.      *)
(***************************************************************************)
\* The statistics map with every examples list emptied.
WithoutExamples(st) == [p \in DOMAIN st |-> [st[p] EXCEPT !.examples = <<>>]]

\* The documents analyzed so far, in the order perm.
Reordered(perm) == [i \in 1..Len(analyzed) |-> analyzed[perm[i]]]

\* C17: analyzing the same documents in any order and finalizing yields the
\* same paths and, for each path, the same depth, occurrences, null_count,
\* type histogram, total_samples and density; only examples may differ.
C17_OrderIndependent ==
    finalized =>
        \A perm \in Orders(1..Len(analyzed)) :
            WithoutExamples(AnalyzeAll(NewAnalyzer, Reordered(perm)))
                = WithoutExamples(stats)

\* The counters of path p in a statistics map, 0 where the map has no entry.
Occurrences0(st, p) == IF p \in DOMAIN st THEN st[p].occurrences ELSE 0
NullCount0(st, p)   == IF p \in DOMAIN st THEN st[p].null_count ELSE 0
Bucket0(st, p, jt)  == IF p \in DOMAIN st /\ jt \in DOMAIN st[p].types THEN st[p].types[jt] ELSE 0

\* The counters after the first k documents analyzed so far.
AfterFirst(k) == AnalyzeAll(NewAnalyzer, SubSeq(analyzed, 1, k))

\* The last two analyze() calls were given the same document.
SameDocumentTwice ==
    /\ ~finalized
    /\ Len(analyzed) >= 2
    /\ analyzed[Len(analyzed)] = analyzed[Len(analyzed) - 1]

\* C18: analyzing a document twice adds to occurrences, null_count and every
\* type bucket of every path exactly twice what analyzing it once adds, and
\* raises total_samples by 2; from the empty analyzer every counter after two
\* passes is double its value after one.
C18_TwiceAddsDouble ==
    SameDocumentTwice =>
        LET n    == Len(analyzed)
            base == AfterFirst(n - 2)
            once == AfterFirst(n - 1)
        IN  /\ total_samples = (n - 2) + 2
            /\ DOMAIN stats = DOMAIN once
            /\ \A p \in DOMAIN stats :
                  /\ stats[p].occurrences - Occurrences0(base, p)
                        = 2 * (once[p].occurrences - Occurrences0(base, p))
                  /\ stats[p].null_count - NullCount0(base, p)
                        = 2 * (once[p].null_count - NullCount0(base, p))
                  /\ \A jt \in DOMAIN stats[p].types :
                        stats[p].types[jt] - Bucket0(base, p, jt)
                          = 2 * (Bucket0(once, p, jt) - Bucket0(base, p, jt))
                  /\ n = 2 => /\ stats[p].occurrences = 2 * once[p].occurrences
                              /\ stats[p].null_count = 2 * once[p].null_count
                              /\ DOMAIN stats[p].types = DOMAIN once[p].types

\* {"age":"30","name":null} was analyzed twice after {"age":30,"name":"Alice"}.
C18_Witness ==
    /\ SameDocumentTwice
    /\ Len(analyzed) = 3
    /\ analyzed[1] # analyzed[2]
    /\ Chars("name") \in DOMAIN stats
    /\ stats[Chars("name")].occurrences = 3
    /\ stats[Chars("name")].null_count = 2

RECURSIVE KeyVisits(_, _, _)
\* The object keys met when the value is traversed from the root, in order:
\* for each, its path, the number of containers (objects and arrays alike)
\* entered to reach it, and the value it holds.
KeyVisits(value, path, level) ==
    CASE value.t = "Object" ->
           Concat([i \in 1..Len(value.entries) |->
                     LET key == value.entries[i][1]
                         val == value.entries[i][2]
                         fp  == IF path = <<>> THEN key ELSE path \o Dot \o key
                     IN  <<[path |-> fp, level |-> level + 1, value |-> val]>>
                         \o KeyVisits(val, fp, level + 1)], 1)
      [] value.t = "Array" ->
           Concat([i \in 1..Len(value.items) |->
                     KeyVisits(value.items[i], path \o ArrayTag, level + 1)], 1)
      [] OTHER -> <<>>

\* The key visits of all documents analyzed so far.
Visits == Concat([d \in 1..Len(analyzed) |-> KeyVisits(analyzed[d], <<>>, 0)], 1)

VisitsOf(p) == {i \in 1..Len(Visits) : Visits[i].path = p}

\* A statistics entry exists for exactly the paths of object keys.
RecordsOnlyKeys == DOMAIN stats = {Visits[i].path : i \in 1..Len(Visits)}

\* Each path is recorded once per visit of a key with that path: a key
\* holding an array once, a key present in N elements of an array N times.
RecordsEachVisit == \A p \in DOMAIN stats : stats[p].occurrences = Cardinality(VisitsOf(p))

\* Nothing is stored under f[] for a key f that holds an array.
NoEntryForElements ==
    \A i \in 1..Len(Visits) :
        Visits[i].value.t = "Array" => (Visits[i].path \o ArrayTag) \notin DOMAIN stats

\* An empty array or object adds no path below its own key.
EmptyAddsNothing ==
    \A i \in 1..Len(Visits) :
        (Visits[i].value \in {JArr(<<>>), JObj(<<>>)}) =>
            \A p \in DOMAIN stats :
                /\ ~starts_with(p, Visits[i].path \o Dot)
                /\ ~starts_with(p, Visits[i].path \o ArrayTag)

\* C19: a field is recorded only for object keys: a key holding an array is
\* recorded once under its own path, nothing is stored under the marker path
\* f[] of its elements, a key present in N object elements is recorded N
\* times under f[].k, and an empty array or object adds no path of its own.
C19_FieldsOnlyForObjectKeys ==
    RecordsOnlyKeys /\ RecordsEachVisit /\ NoEntryForElements /\ EmptyAddsNothing

\* The depth stored for a path is the level of the first key visit with that path.
DepthOfFirstVisit ==
    \A p \in DOMAIN stats : stats[p].depth = Visits[Min(VisitsOf(p))].level

\* C20: the depth stored for a path equals the number of containers, objects
\* and arrays alike, traversed from the document root to the field: 1 for a
\* root field, 3 for a.b.c and for a[].b.
C20_DepthCountsContainers ==
    \A i \in 1..Len(Visits) :
        /\ Visits[i].path \in DOMAIN stats
        /\ stats[Visits[i].path].depth = Visits[i].level

\* The values the keys with path p held, in the order they were visited.
ValuesAt(visits, p) == SelectSeq(visits, LAMBDA x : x.path = p)

IsPrefix(a, b) == Len(a) <= Len(b) /\ SubSeq(b, 1, Len(a)) = a

\* C21: the examples of a path are the first min(10, occurrences) values
\* observed at it, in visit order; the list never exceeds 10 and a recorded
\* example is never replaced or moved by a later value.
C21_ExamplesAreFirstTen ==
    /\ [](LET visits == Visits
          IN  \A p \in DOMAIN stats :
                 LET at == ValuesAt(visits, p)
                 IN  /\ Len(stats[p].examples) <= 10
                     /\ Len(stats[p].examples) = Min({10, stats[p].occurrences})
                     /\ Len(at) = stats[p].occurrences
                     /\ \A i \in 1..Len(stats[p].examples) :
                           stats[p].examples[i] = at[i].value)
    /\ [][\A p \in DOMAIN stats :
             p \in DOMAIN stats' /\ IsPrefix(stats[p].examples, stats'[p].examples)]_vars

\* tags[].v was visited 12 times, in two documents of 6 elements: the
\* examples are the 6 values of the first and the first 4 of the second.
C21_Witness ==
    /\ Chars("tags[].v") \in DOMAIN stats
    /\ stats[Chars("tags[].v")].occurrences > 10
    /\ Len(stats[Chars("tags[].v")].examples) = 10
    /\ stats[Chars("tags[].v")].examples[10] = JNum(4)

(***************************************************************************)
(* Further claims about the drift classifier, checked under SpecDrift.     *)
(***************************************************************************)
\* The severity the issue should have, from its kind and its own fields.
StatedSeverity(issue) ==
    IF issue.kind = "TypeInconsistency"
    THEN (IF ~RLt(issue.minority_percentage, Rat(10, 1)) THEN "Critical"
          ELSE IF ~RLt(issue.minority_percentage, Rat(5, 1)) THEN "Warning"
          ELSE "Info")
    ELSE IF issue.kind = "MissingKey"
    THEN (IF RLt(issue.density, Rat(9, 10)) THEN "Critical"
          ELSE IF RLt(issue.density, Rat(19, 20)) THEN "Warning"
          ELSE "Info")
    ELSE IF issue.kind \in {"GhostKey", "SparseField"} THEN "Info"
    ELSE "Warning"

\* C22: the severity of every issue detect_drift returns follows from the
\* issue alone: TypeInconsistency is Critical from 10.0 percent, Warning from
\* 5.0, else Info; MissingKey is Critical below 0.90, Warning below 0.95,
\* else Info; GhostKey and SparseField are Info; SchemaEvolution is Warning.
C22_SeverityTable ==
    drift_done =>
        \A i \in 1..Len(issues) :
            /\ issues[i].kind \in {"TypeInconsistency", "MissingKey", "GhostKey",
                                   "SparseField", "SchemaEvolution"}
            /\ severity(issues[i]) = StatedSeverity(issues[i])

\* One result holds a MissingKey at density exactly 0.90 (Warning) and a
\* TypeInconsistency at exactly 10 percent (Critical).
C22_Witness ==
    /\ drift_done
    /\ \E i \in 1..Len(issues) :
          /\ issues[i].kind = "MissingKey"
          /\ REq(issues[i].density, Rat(9, 10))
          /\ severity(issues[i]) = "Warning"
    /\ \E i \in 1..Len(issues) :
          /\ issues[i].kind = "TypeInconsistency"
          /\ REq(issues[i].minority_percentage, Rat(10, 1))
          /\ severity(issues[i]) = "Critical"

(***************************************************************************)
(* Claims about generated index names, checked under SpecIndex.            *)
(***************************************************************************)
\* The index name in the DDL: the text between CREATE INDEX and ON.
IndexNameOf(sql) ==
    LET from == Min(Occurrences(sql, Chars("CREATE INDEX "))) + 13
        rest == SubSeq(sql, from, Len(sql))
    IN  SubSeq(rest, 1, Min(Occurrences(rest, Chars(" ON "))) - 1)

\* The kind passed to generate_index_name for a recommendation.
KindOf(rec) ==
    CASE rec.index_type = "Gin"            -> Chars("gin")
      [] rec.index_type = "Partial"        -> Chars("partial_gin")
      [] rec.index_type = "BTreeExtracted" -> Chars("btree_ext")

IsHexDigit(c) == InSeq(HexChars, c)

\* The name ends with an underscore and 1 to 8 hexadecimal digits.
EndsWithHash(name) ==
    \E k \in 1..8 :
        /\ Len(name) > k
        /\ name[Len(name) - k] = "_"
        /\ \A i \in (Len(name) - k + 1)..Len(name) : IsHexDigit(name[i])

NameStartsWithIdx  == \A i \in 1..Len(recommendations) :
                         starts_with(IndexNameOf(recommendations[i].sql), Chars("idx_"))
NameAtMost63       == \A i \in 1..Len(recommendations) :
                         Len(IndexNameOf(recommendations[i].sql)) <= 63
NameIdentifierSafe == \A i \in 1..Len(recommendations) :
                         \A j \in 1..Len(IndexNameOf(recommendations[i].sql)) :
                             IsWordChar(IndexNameOf(recommendations[i].sql)[j])
\* A name whose parts add up to more than 63 characters is cut and hashed.
LongNameHashed ==
    \A i \in 1..Len(recommendations) :
        (4 + Len(index_call.table) + 1 + Len(index_call.column) + 1
           + Len(KindOf(recommendations[i])) > 63)
            => /\ Len(IndexNameOf(recommendations[i].sql)) = 63
               /\ EndsWithHash(IndexNameOf(recommendations[i].sql))

\* C23: every generated index name starts with idx_, is at most 63
\* characters long, holds only letters, digits and underscores, and, when
\* its parts exceed 63 characters, is truncated and ends with a hash suffix.
C23_IndexNameWellFormed ==
    NameStartsWithIdx /\ NameAtMost63 /\ NameIdentifierSafe /\ LongNameHashed

\* C24: two recommendations of one call (same table and column) with the
\* same index type and distinct field paths never carry the same index name.
C24_IndexNamesDistinct ==
    \A i, j \in 1..Len(recommendations) :
        (/\ recommendations[i].index_type = recommendations[j].index_type
         /\ recommendations[i].field_path # recommendations[j].field_path)
            => IndexNameOf(recommendations[i].sql) # IndexNameOf(recommendations[j].sql)

(***************************************************************************)
(* Claims about detect_schema_evolution, checked under SpecDrift.          *)
(***************************************************************************)
DeprecatedIssuesAt(p) ==
    {i \in 1..Len(issues) : /\ issues[i].kind = "SchemaEvolution"
                            /\ issues[i].pattern.kind = "DeprecatedNaming"
                            /\ issues[i].path = p}

\* The path begins with old_, legacy_ or deprecated_, and the rest of it is
\* an observed path.
HasRenamedTwin(p) ==
    \E pre \in {Chars("old_"), Chars("legacy_"), Chars("deprecated_")} :
        /\ starts_with(p, pre)
        /\ SubSeq(p, Len(pre) + 1, Len(p)) \in DOMAIN stats

\* C25: with schema-evolution detection on, a DeprecatedNaming issue is
\* emitted for a path exactly when the path begins with old_, legacy_ or
\* deprecated_ and the path without that prefix is observed; its new_path is
\* old_path without the prefix, differs from old_path and is a key of the map.
C25_DeprecatedNamingIff ==
    (drift_done /\ drift_config.detect_schema_evolution) =>
        \A p \in DOMAIN stats :
            /\ DeprecatedIssuesAt(p) # {} <=> HasRenamedTwin(p)
            /\ \A i \in DeprecatedIssuesAt(p) :
                  /\ issues[i].pattern.old_path = p
                  /\ issues[i].pattern.new_path # p
                  /\ issues[i].pattern.new_path \in DOMAIN stats
                  /\ \E pre \in {Chars("old_"), Chars("legacy_"), Chars("deprecated_")} :
                        p = pre \o issues[i].pattern.new_path

(***************************************************************************)
(* Claims about the partial index DDL, checked under SpecIndex.            *)
(***************************************************************************)
\* The column the index is created on: the text in USING GIN (...).
IndexedColumnOf(sql) ==
    LET from == Min(Occurrences(sql, Chars(" USING GIN ("))) + 12
        rest == SubSeq(sql, from, Len(sql))
    IN  SubSeq(rest, 1, Min(Occurrences(rest, Chars(") WHERE "))) - 1)

\* The predicate of a partial index: the text after WHERE, without the ';'.
WhereOf(sql) ==
    LET from == Min(Occurrences(sql, Chars(") WHERE "))) + 8
    IN  SubSeq(sql, from, Len(sql) - 1)

\* The operand of the existence test: the text before the first blank.
TestedColumnOf(where) == SubSeq(where, 1, Min(Occurrences(where, <<" ">>)) - 1)

PartialRecommendations ==
    {i \in 1..Len(recommendations) : recommendations[i].index_type = "Partial"}

\* C26: whatever column recommend_index is called with, the existence
\* predicate in the WHERE clause of a Partial recommendation tests the column
\* the index is created on.
C26_PartialTestsIndexedColumn ==
    \A i \in PartialRecommendations :
        /\ IndexedColumnOf(recommendations[i].sql) = index_call.column
        /\ TestedColumnOf(WhereOf(recommendations[i].sql)) = index_call.column

(***************************************************************************)
(* Claims about mutually exclusive path families, checked under SpecDrift. *)
(***************************************************************************)
Underscores(p) == {i \in 1..Len(p) : p[i] = "_"}

\* The text of p before its last underscore.
BeforeLastUnderscore(p) == SubSeq(p, 1, Max(Underscores(p)) - 1)

Grouped == {p \in DOMAIN stats : Underscores(p) # {}}

Groups == {BeforeLastUnderscore(p) : p \in Grouped}

GroupMembers(b) == {p \in Grouped : BeforeLastUnderscore(p) = b}

RECURSIVE DensitySum(_), DensityMax(_)
DensitySum(S) ==
    IF S = {} THEN RZero
    ELSE LET p == CHOOSE q \in S : TRUE IN RAdd(stats[p].density, DensitySum(S \ {p}))

DensityMax(S) ==
    IF S = {} THEN RZero
    ELSE LET p == CHOOSE q \in S : TRUE IN RMax(stats[p].density, DensityMax(S \ {p}))

\* At least two members, and the sum of their densities within 0.1 of the
\* largest of them.
LooksExclusive(b) ==
    /\ Cardinality(GroupMembers(b)) >= 2
    /\ RLt(RAbs(RSub(DensitySum(GroupMembers(b)), DensityMax(GroupMembers(b)))), Rat(1, 10))

ExclusiveIssues ==
    {i \in 1..Len(issues) : /\ issues[i].kind = "SchemaEvolution"
                            /\ issues[i].pattern.kind = "MutuallyExclusive"}

ExclusiveIssuesAt(b) == {i \in ExclusiveIssues : issues[i].path = b}

InfoIssues == {i \in 1..Len(issues) : severity(issues[i]) = "Info"}

\* C28: under the default configuration no TypeInconsistency and no
\* MissingKey issue has severity Info: every Info issue is a GhostKey or a
\* SparseField.
C28_DefaultInfoIsGhostOrSparse ==
    (drift_done /\ drift_config = DefaultDriftConfig) =>
        /\ \A i \in 1..Len(issues) :
              issues[i].kind \in {"TypeInconsistency", "MissingKey"}
                  => severity(issues[i]) # "Info"
        /\ \A i \in InfoIssues : issues[i].kind \in {"GhostKey", "SparseField"}

\* A default-configuration result with a TypeInconsistency just above the
\* 5 percent threshold beside an Info issue.
C28_Witness ==
    /\ drift_done
    /\ drift_config = DefaultDriftConfig
    /\ InfoIssues # {}
    /\ \E i \in 1..Len(issues) :
          /\ issues[i].kind = "TypeInconsistency"
          /\ RLt(issues[i].minority_percentage, Rat(6, 1))

(***************************************************************************)
(* Claims about the results as functions of the statistics and the         *)
(* configuration alone.                                                    *)
(***************************************************************************)
\* Every iteration order of the statistics map and of path_families gives
\* the issues that were returned.
DriftResultFixed ==
    drift_done =>
        \A order \in Orders(DOMAIN stats) :
            \A family_order \in Orders(DOMAIN PathFamilies(order)) :
                detect_drift(stats, drift_config, order, family_order) = issues

\* Every iteration order of the statistics map and of the fields' types maps
\* gives the recommendations that were returned.
IndexResultFixed ==
    index_done =>
        \A order \in Orders(DOMAIN stats) :
            \A type_orders \in TypeOrders(stats) :
                recommend_index(index_call.table, index_call.column,
                                [i \in 1..Len(order) |-> stats[order[i]]],
                                index_config, type_orders) = recommendations

\* C29: detect_drift and recommend_index return equal results for equal
\* statistics and configuration, whatever the iteration order of the hash
\* maps and whatever ties there are between type counts.
C29_ResultsOrderIndependent == DriftResultFixed /\ IndexResultFixed

(***************************************************************************)
(* Claims about the density heuristics for arbitrary thresholds, checked   *)
(* under SpecDrift.                                                        *)
(***************************************************************************)
\* C30: whatever the configuration's thresholds, ordered or not, and
\* whatever the density, detect_drift emits at most one of GhostKey,
\* SparseField and MissingKey for a field.
C30_AtMostOneDensityIssue ==
    drift_done =>
        \A p \in DOMAIN stats :
            Cardinality({i \in 1..Len(issues) :
                            issues[i].kind \in BandKinds /\ issues[i].path = p}) <= 1

====
